---- MODULE Spec2Model ----
(***************************************************************************)
(* Model of the BLE management RPC handler (ble_management_handler.c):     *)
(* the profile-name cache, its persistence through the settings            *)
(* subsystem, and the request dispatcher with its six handlers.            *)
(*                                                                         *)
(* C strings are TLA+ strings (Len, \o and SubSeq act on them); a          *)
(* Bluetooth LE address is a record [type, val] with val the six bytes     *)
(* val[5]..val[0] kept in printing order.                                  *)
(***************************************************************************)
EXTENDS Integers, Sequences, FiniteSets, TLC

(***************************************************************************)
(* Sizes                                                                   *)
(***************************************************************************)
\* Number of BLE profiles (the length of profile_names).
ZMK_BLE_PROFILE_COUNT == 2

\* sizeof(profile_names[i].name)
NAME_SIZE == 32

\* sizeof(addr_str): room for "XX:XX:XX:XX:XX:XX (random-id)" and a NUL.
BT_ADDR_LE_STR_LEN == 30

\* sizeof(setting_name)
SETTING_NAME_SIZE == 64

\* errno values of the firmware's C library that the handler names.
ENOTSUP == 134

ENOMEM == 12

\* Distinct byte patterns of the peers the wireless stack may pair with.
NumPeerVals == 1

\* Distinct byte patterns of the records found in the settings store at
\* first boot.
NumStoredVals == 3

\* Request indices range over 0 .. ZMK_BLE_PROFILE_COUNT - 1 + ExtraIndex.
ExtraIndex == 1

\* The longest name a request carries is NAME_SIZE + ExtraNameLen characters.
ExtraNameLen == 1

Indexes == 0 .. (ZMK_BLE_PROFILE_COUNT - 1)

ReqIndexes == 0 .. (ZMK_BLE_PROFILE_COUNT - 1 + ExtraIndex)

Min(a, b) == IF a <= b THEN a ELSE b

(***************************************************************************)
(* C string helpers                                                        *)
(***************************************************************************)
\* The character at 1-based position i, as a one-character string.
CharAt(s, i) == SubSeq(s, i, i)

\* strncpy(dst, src, n) followed by dst[n] = '\0': the first n characters.
Strncpy(src, n) == SubSeq(src, 1, Min(Len(src), n))

\* snprintf(buf, size, "%s%s", a, b): the output cut to size - 1 characters.
Snprintf2(size, a, b) == Strncpy(a \o b, size - 1)

RECURSIVE Repeat(_, _)
Repeat(c, n) == IF n = 0 THEN "" ELSE c \o Repeat(c, n - 1)

(***************************************************************************)
(* Bluetooth addresses and their textual form                              *)
(***************************************************************************)
HexDigits == <<"0", "1", "2", "3", "4", "5", "6", "7",
               "8", "9", "A", "B", "C", "D", "E", "F">>

LowerHexDigits == <<"0", "1", "2", "3", "4", "5", "6", "7",
                    "8", "9", "a", "b", "c", "d", "e", "f">>

\* printf("%02X", b)
Hex2(b) == HexDigits[(b \div 16) + 1] \o HexDigits[(b % 16) + 1]

\* char2hex: the value of a hex digit, -1 for any other character.
Char2Hex(c) ==
    IF \E d \in 1..16 : HexDigits[d] = c
    THEN (CHOOSE d \in 1..16 : HexDigits[d] = c) - 1
    ELSE IF \E d \in 1..16 : LowerHexDigits[d] = c
    THEN (CHOOSE d \in 1..16 : LowerHexDigits[d] = c) - 1
    ELSE -1

\* bt_addr_le_t type values BT_ADDR_LE_PUBLIC and BT_ADDR_LE_RANDOM.
AddrTypes == {0, 1}

BT_ADDR_LE_NONE == [type |-> 0, val |-> <<255, 255, 255, 255, 255, 255>>]

\* The k-th byte pattern: 0x11.., 0x22.., ...
Val(k) == [i \in 1..6 |-> (17 * k) % 256]

\* bt_addr_le_eq
bt_addr_le_eq(a, b) == a.type = b.type /\ a.val = b.val

\* The type name bt_addr_le_to_str prints.
TypeStr(t) ==
    CASE t = 0 -> "public"
      [] t = 1 -> "random"
      [] t = 2 -> "public-id"
      [] t = 3 -> "random-id"
      [] OTHER -> "0x" \o Hex2(t)

\* bt_addr_le_to_str(addr, str, len): "XX:XX:XX:XX:XX:XX (type)".
bt_addr_le_to_str(addr, len) ==
    Strncpy(Hex2(addr.val[1]) \o ":" \o Hex2(addr.val[2]) \o ":" \o
            Hex2(addr.val[3]) \o ":" \o Hex2(addr.val[4]) \o ":" \o
            Hex2(addr.val[5]) \o ":" \o Hex2(addr.val[6]) \o
            " (" \o TypeStr(addr.type) \o ")", len - 1)

\* bt_addr_from_str: exactly "XX:XX:XX:XX:XX:XX" (17 characters), else fails.
AddrStrWellFormed(str) ==
    /\ Len(str) = 17
    /\ \A j \in 1..17 :
          IF j % 3 = 0 THEN CharAt(str, j) = ":"
          ELSE Char2Hex(CharAt(str, j)) >= 0

AddrStrByte(str, b) ==
    16 * Char2Hex(CharAt(str, 3 * b - 2)) + Char2Hex(CharAt(str, 3 * b - 1))

\* bt_addr_le_from_str(str, type, &addr): [rc, addr]; rc = 0 on success.
bt_addr_le_from_str(str, type) ==
    IF ~AddrStrWellFormed(str) THEN [rc |-> -22, addr |-> BT_ADDR_LE_NONE]
    ELSE IF type \in {"public", "(public)"}
         THEN [rc |-> 0,
               addr |-> [type |-> 0, val |-> [b \in 1..6 |-> AddrStrByte(str, b)]]]
    ELSE IF type \in {"random", "(random)"}
         THEN [rc |-> 0,
               addr |-> [type |-> 1, val |-> [b \in 1..6 |-> AddrStrByte(str, b)]]]
    ELSE [rc |-> -22, addr |-> BT_ADDR_LE_NONE]

(***************************************************************************)
(* Settings keys                                                           *)
(***************************************************************************)
SETTINGS_NAME_PREFIX == "ble_mgmt/names/"

\* Length of the run the loop of settings_name_steq walks over: key and name
\* agree, neither has ended, and name has not reached '='.
RECURSIVE SteqRun(_, _, _)
SteqRun(name, key, n) ==
    IF /\ n < Len(key)
       /\ n < Len(name)
       /\ CharAt(key, n + 1) = CharAt(name, n + 1)
       /\ CharAt(name, n + 1) # "="
    THEN SteqRun(name, key, n + 1)
    ELSE n

\* settings_name_steq(name, key, &next): [rc, has_next, next], has_next
\* telling whether *next was set to a remainder (FALSE: *next is NULL).
settings_name_steq(name, key) ==
    LET n == SteqRun(name, key, 0) IN
    IF n < Len(key) THEN [rc |-> 0, has_next |-> FALSE, next |-> ""]
    ELSE IF n < Len(name) /\ CharAt(name, n + 1) = "/"
         THEN [rc |-> 1, has_next |-> TRUE, next |-> SubSeq(name, n + 2, Len(name))]
    ELSE IF n = Len(name) \/ CharAt(name, n + 1) = "="
         THEN [rc |-> 1, has_next |-> FALSE, next |-> ""]
    ELSE [rc |-> 0, has_next |-> FALSE, next |-> ""]

\* The key save_profile_name writes the name of addr under.
SettingName(addr) ==
    Snprintf2(SETTING_NAME_SIZE, SETTINGS_NAME_PREFIX,
              bt_addr_le_to_str(addr, BT_ADDR_LE_STR_LEN))

(***************************************************************************)
(* The profile-name cache                                                  *)
(***************************************************************************)
EmptyEntry == [addr |-> BT_ADDR_LE_NONE, name |-> ""]

\* An entry of the static array before profile_names_init has run: zeroed
\* storage, which reads as the all-zero public address and "".
ZeroedEntry == [addr |-> [type |-> 0, val |-> [b \in 1..6 |-> 0]], name |-> ""]

\* Variant: the loop stops one entry early and the last entry stays zeroed.
profile_names_init_SkipsLast ==
    [i \in Indexes |-> IF i < ZMK_BLE_PROFILE_COUNT - 1 THEN EmptyEntry
                                                        ELSE ZeroedEntry]

\* profile_names_init: every entry set to BT_ADDR_LE_NONE and "".
profile_names_init == [i \in Indexes |-> EmptyEntry]

\* get_profile_name: the name of the first entry holding addr, else "".
RECURSIVE GetNameLoop(_, _, _)
GetNameLoop(table, addr, i) ==
    IF i >= ZMK_BLE_PROFILE_COUNT THEN ""
    ELSE IF bt_addr_le_eq(table[i].addr, addr) THEN table[i].name
    ELSE GetNameLoop(table, addr, i + 1)

get_profile_name(table, addr) == GetNameLoop(table, addr, 0)

\* The slot search shared by save_profile_name and profile_names_settings_set:
\* the first entry holding addr if there is one, else the first entry
\* holding BT_ADDR_LE_NONE, else -1.
RECURSIVE FindSlotLoop(_, _, _, _)
FindSlotLoop(table, addr, i, slot) ==
    IF i >= ZMK_BLE_PROFILE_COUNT THEN slot
    ELSE IF bt_addr_le_eq(table[i].addr, addr) THEN i
    ELSE IF slot = -1 /\ bt_addr_le_eq(table[i].addr, BT_ADDR_LE_NONE)
         THEN FindSlotLoop(table, addr, i + 1, i)
    ELSE FindSlotLoop(table, addr, i + 1, slot)

\* Variant: an entry holding BT_ADDR_LE_NONE is taken before the entries are
\* searched for addr.
FindSlot_FreeFirst(table, addr) ==
    IF \E i \in Indexes : bt_addr_le_eq(table[i].addr, BT_ADDR_LE_NONE)
    THEN CHOOSE i \in Indexes :
            /\ bt_addr_le_eq(table[i].addr, BT_ADDR_LE_NONE)
            /\ \A j \in Indexes :
                  bt_addr_le_eq(table[j].addr, BT_ADDR_LE_NONE) => i <= j
    ELSE FindSlotLoop(table, addr, 0, -1)

\* Variant: the loop does not test slot == -1, so a later entry holding
\* BT_ADDR_LE_NONE replaces an earlier one.
FindSlot_LastFree(table, addr) ==
    LET held == {i \in Indexes : bt_addr_le_eq(table[i].addr, addr)}
        free == {i \in Indexes : bt_addr_le_eq(table[i].addr, BT_ADDR_LE_NONE)}
    IN  IF held # {} THEN CHOOSE i \in held : \A j \in held : i <= j
        ELSE IF free # {} THEN CHOOSE i \in free : \A j \in free : j <= i
        ELSE -1

FindSlot(table, addr) == FindSlotLoop(table, addr, 0, -1)

\* The store is the sequence of its records [key, value] in storage order.
StoreKeys(store) == {store[j].key : j \in DOMAIN store}

StoreValue(store, key) ==
    store[CHOOSE j \in DOMAIN store : store[j].key = key].value

\* settings_save_one(key, value, len) on the store: the record of the key is
\* rewritten, or a new record added, when the backend succeeds; the store is
\* left alone when it fails.
settings_save_one(store, key, value, wr_rc) ==
    IF wr_rc # 0 THEN store
    ELSE IF key \in StoreKeys(store)
         THEN [j \in DOMAIN store |->
                  IF store[j].key = key THEN [key |-> key, value |-> value]
                  ELSE store[j]]
    ELSE Append(store, [key |-> key, value |-> value])

\* Variant: an entry that already holds addr keeps its name in the cache;
\* only the settings record is rewritten.
save_profile_name_KeepsOld(table, store, addr, name, wr_rc) ==
    LET slot == FindSlot(table, addr) IN
    IF slot = -1
    THEN [rc |-> 0 - ENOMEM, table |-> table, store |-> store, wrote |-> FALSE]
    ELSE [rc |-> wr_rc,
          table |-> IF bt_addr_le_eq(table[slot].addr, addr) THEN table
                    ELSE [table EXCEPT ![slot] =
                            [addr |-> addr, name |-> Strncpy(name, NAME_SIZE - 1)]],
          store |-> settings_save_one(store, SettingName(addr), name, wr_rc),
          wrote |-> TRUE]

\* Variant: an entry already holding addr is not looked for; the name always
\* goes to the first free entry.
save_profile_name_NoReuse(table, store, addr, name, wr_rc) ==
    LET slot == FindSlot(table, BT_ADDR_LE_NONE) IN
    IF slot = -1
    THEN [rc |-> 0 - ENOMEM, table |-> table, store |-> store, wrote |-> FALSE]
    ELSE [rc |-> wr_rc,
          table |-> [table EXCEPT ![slot] =
                        [addr |-> addr, name |-> Strncpy(name, NAME_SIZE - 1)]],
          store |-> settings_save_one(store, SettingName(addr), name, wr_rc),
          wrote |-> TRUE]

\* Variant: with no entry left the first entry is given to the new address.
save_profile_name_Evicts(table, store, addr, name, wr_rc) ==
    LET found == FindSlot(table, addr)
        slot == IF found = -1 THEN 0 ELSE found
    IN  [rc |-> wr_rc,
         table |-> [table EXCEPT ![slot] =
                       [addr |-> addr, name |-> Strncpy(name, NAME_SIZE - 1)]],
         store |-> settings_save_one(store, SettingName(addr), name, wr_rc),
         wrote |-> TRUE]

\* Variant: the record is written first and the cache is updated only when
\* the write succeeded.
save_profile_name_WriteFirst(table, store, addr, name, wr_rc) ==
    LET slot == FindSlot(table, addr) IN
    IF slot = -1
    THEN [rc |-> 0 - ENOMEM, table |-> table, store |-> store, wrote |-> FALSE]
    ELSE [rc |-> wr_rc,
          table |-> IF wr_rc # 0 THEN table
                    ELSE [table EXCEPT ![slot] =
                            [addr |-> addr, name |-> Strncpy(name, NAME_SIZE - 1)]],
          store |-> settings_save_one(store, SettingName(addr), name, wr_rc),
          wrote |-> TRUE]

\* save_profile_name(addr, name): [rc, table, store, wrote].  wr_rc is the
\* result of settings_save_one.
save_profile_name(table, store, addr, name, wr_rc) ==
    LET slot == FindSlot(table, addr) IN
    IF slot = -1
    THEN [rc |-> 0 - ENOMEM, table |-> table, store |-> store, wrote |-> FALSE]
    ELSE [rc |-> wr_rc,
          table |-> [table EXCEPT ![slot] =
                        [addr |-> addr, name |-> Strncpy(name, NAME_SIZE - 1)]],
          store |-> settings_save_one(store, SettingName(addr), name, wr_rc),
          wrote |-> TRUE]

\* The address profile_names_settings_set parses out of a key: [ok, addr].
ParseSettingAddr(name) ==
    LET m == settings_name_steq(name, SETTINGS_NAME_PREFIX) IN
    IF ~(m.rc # 0 /\ m.has_next) THEN [ok |-> FALSE, addr |-> BT_ADDR_LE_NONE]
    ELSE LET addr_str == Strncpy(m.next, BT_ADDR_LE_STR_LEN - 1)
             r == bt_addr_le_from_str(addr_str, "random")
             p == bt_addr_le_from_str(addr_str, "public")
         IN  IF r.rc = 0 THEN [ok |-> TRUE, addr |-> r.addr]
             ELSE IF p.rc = 0 THEN [ok |-> TRUE, addr |-> p.addr]
             ELSE [ok |-> FALSE, addr |-> BT_ADDR_LE_NONE]

\* Whether profile_names_settings_set gets as far as calling read_cb.
ReadReached(table, name) ==
    LET p == ParseSettingAddr(name) IN p.ok /\ FindSlot(table, p.addr) # -1

\* Variant: the callback never looks for an entry already holding the
\* address and always takes the first free entry.
profile_names_settings_set_Alloc(table, name, value, rd_ok) ==
    LET p == ParseSettingAddr(name) IN
    IF ~p.ok THEN table
    ELSE LET slot == FindSlot(table, BT_ADDR_LE_NONE) IN
         IF slot = -1 THEN table
         ELSE [table EXCEPT ![slot] =
                  [addr |-> p.addr,
                   name |-> IF rd_ok THEN Strncpy(value, NAME_SIZE - 1)
                            ELSE table[slot].name]]

\* Variant: a record that finds no entry takes the first one.
profile_names_settings_set_Evicts(table, name, value, rd_ok) ==
    LET p == ParseSettingAddr(name) IN
    IF ~p.ok THEN table
    ELSE LET found == FindSlot(table, p.addr)
             slot == IF found = -1 THEN 0 ELSE found
         IN  [table EXCEPT ![slot] =
                 [addr |-> p.addr,
                  name |-> IF rd_ok THEN Strncpy(value, NAME_SIZE - 1)
                           ELSE table[slot].name]]

\* profile_names_settings_set(name, len, read_cb, cb_arg): the table after
\* the callback.  value is the stored record (a NUL-terminated name) and
\* rd_ok tells whether read_cb returned rc >= 0.
profile_names_settings_set(table, name, value, rd_ok) ==
    LET p == ParseSettingAddr(name) IN
    IF ~p.ok THEN table
    ELSE LET slot == FindSlot(table, p.addr) IN
         IF slot = -1 THEN table
         ELSE [table EXCEPT ![slot] =
                  [addr |-> p.addr,
                   name |-> IF rd_ok THEN Strncpy(value, NAME_SIZE - 1)
                            ELSE table[slot].name]]

\* The value profile_names_settings_set returns to the settings subsystem:
\* 0 after a key it cannot parse, 0 when no entry is found, 0 after the read
\* whatever read_cb returned.
profile_names_settings_set_rc(table, name, value, rd_ok) ==
    LET p == ParseSettingAddr(name) IN
    IF ~p.ok THEN 0
    ELSE IF FindSlot(table, p.addr) = -1 THEN 0
    ELSE 0

(***************************************************************************)
(* Requests and responses                                                  *)
(***************************************************************************)
\* sizeof(profile->name) and sizeof(profile->address) of the generated
\* zmk_ble_management_ProfileInfo.
PROFILE_INFO_NAME_SIZE == 32

PROFILE_INFO_ADDRESS_SIZE == 32

RequestTags == {"get_profiles", "set_profile_name", "switch_profile",
                "unpair_profile", "get_split_info", "forget_split_bond"}

ResponseTags == RequestTags \cup {"error"}

\* Names a SetProfileNameRequest may carry: one that fits a cache entry and
\* one that is longer than the entry holds.
LongName == Repeat("x", NAME_SIZE + ExtraNameLen)

ReqNames == {"Laptop", LongName}

\* The decoded request: which_request_type and the fields of the variant.
\* Tag "none" is a request that decodes with no known variant populated.
Req(tag, index, name) == [tag |-> tag, index |-> index, name |-> name]

IdleReq == Req("idle", 0, "")

\* A payload pb_decode rejects.
UndecodableReq == Req("undecodable", 0, "")

\* zmk_ble_management_SplitInfo_init_zero
ZeroInfo == [is_split |-> FALSE, is_central |-> FALSE, is_peripheral |-> FALSE,
             peripheral_connected |-> FALSE, central_bonded |-> FALSE]

\* zmk_ble_management_Response with nothing populated.
ZeroResp == [which |-> "none", success |-> FALSE, message |-> "",
             max_profiles |-> 0, profiles |-> <<>>, info |-> ZeroInfo]

\* snprintf("%d", n) for the error codes the dispatcher prints.
RECURSIVE DecDigits(_)
DecDigits(n) ==
    IF n < 10 THEN HexDigits[n + 1]
    ELSE DecDigits(n \div 10) \o HexDigits[(n % 10) + 1]

DecStr(n) == IF n < 0 THEN "-" \o DecDigits(0 - n) ELSE DecDigits(n)

\* The error response of the dispatcher: the error variant selected and the
\* message filled in.
ErrorResp(msg) == [ZeroResp EXCEPT !.which = "error", !.message = msg]

(***************************************************************************)
(* State                                                                   *)
(***************************************************************************)
VARIABLES
    profile_names,  \* the cache: [Indexes -> [addr, name]]
    settings,       \* the settings store: records [key, value] in storage order
    phase,          \* "boot" or "reload" while the settings are loaded, "serve"
                    \* while the dispatcher awaits a request, "responded" while
                    \* the transport holds the response of the request just handled
    cursor,         \* records the running settings load has replayed
    replays,        \* settings loads completed in a row with no other step between
    snap,           \* the cache as the first of those loads left it
    peer,           \* wireless stack: the address of each profile
    split,          \* build configuration: "none", "central" or "peripheral"
    last,           \* the request just handled, or "boot"/"reload" when a
                    \* settings load has just completed (IdleReq otherwise)
    resp,           \* the response it produced
    ret,            \* the value ble_management_rpc_handle_request returned
    handlers,       \* the handlers the dispatcher invoked for it, in order
    calls           \* the external calls made for it, in order: <<fn, arg, rc>>;
                    \* a cache entry the unpair handler resets between two
                    \* calls is logged as <<"profile_names_clear", entry, 0>>

\* The web application: the React state of its components, the requests it
\* has in flight and what each component renders.
VARIABLE web

vars == <<profile_names, settings, phase, cursor, replays, snap, peer,
          split, last, resp, ret, handlers, calls, web>>

store_vars == <<profile_names, settings>>

stack_vars == <<peer>>

\* Addresses of the peers the stack may be bonded to.
PeerAddrs == {[type |-> t, val |-> Val(k)] : t \in AddrTypes, k \in 1..NumPeerVals}

\* A key in the only form profile_names_settings_set accepts.
AcceptedKey(k) ==
    SETTINGS_NAME_PREFIX \o "/" \o
    SubSeq(bt_addr_le_to_str([type |-> 1, val |-> Val(k)], BT_ADDR_LE_STR_LEN), 1, 17)

\* The records a device may find in its settings store at first boot: one
\* per byte pattern, then one whose key holds no address.
StoredAtBoot ==
    [k \in 1..NumStoredVals |-> [key |-> AcceptedKey(k), value |-> "Desk"]] \o
    << [key |-> SETTINGS_NAME_PREFIX \o "/junk", value |-> "Desk"] >>

\* A store whose one record holds a name longer than a cache entry.
StoredLong == <<  [key |-> AcceptedKey(1), value |-> LongName]  >>

EmptyStore == <<>>

NoSnap == <<>>

(***************************************************************************)
(* The web application                                                     *)
(***************************************************************************)
\* useState initial values of SplitManager; NoInfo is the null splitInfo
\* and NoError the null error (an empty message renders the same way).
NoInfo == [none |-> TRUE]

NoError == ""

SplitManagerState ==
    [splitInfo |-> NoInfo, isLoading |-> FALSE, error |-> NoError]

\* useState initial values of ProfileManager.
ProfileManagerState ==
    [profiles |-> <<>>, maxProfiles |-> 0, isLoading |-> FALSE, error |-> NoError]

\* What a component that is not mounted shows.
NoView == [warning |-> FALSE, section |-> FALSE, refresh |-> FALSE]

\* No page is open.  app is the ZMKAppContext value: "absent" without a
\* provider, "disconnected" or "connected" otherwise; listed tells whether
\* the connected device lists the subsystem identifier.
WebClosed ==
    [mounted |-> FALSE, app |-> "absent", listed |-> FALSE, rpc |-> <<>>,
     pm |-> ProfileManagerState, pm_view |-> NoView,
     sm |-> SplitManagerState, sm_view |-> NoView]


(***************************************************************************)
\* The address of profile i; BT_ADDR_LE_NONE for an index out of range.
zmk_ble_profile_address(i) == IF i \in Indexes THEN peer[i] ELSE BT_ADDR_LE_NONE

\* A profile is open when no peer is bonded to it.
zmk_ble_profile_is_open(i) == bt_addr_le_eq(zmk_ble_profile_address(i), BT_ADDR_LE_NONE)

Bound(addr) == ~bt_addr_le_eq(addr, BT_ADDR_LE_NONE)

(***************************************************************************)
(* Handlers                                                                *)
(***************************************************************************)
\* Variant: the name is read from the cache entry at the profile's index
\* instead of being looked up by the profile's address.
ProfileInfo_ByIndex(table, i, act, conn) ==
    LET addr == zmk_ble_profile_address(i)
        name == table[i].name
    IN  [index |-> i,
         is_open |-> zmk_ble_profile_is_open(i),
         is_connected |-> (i \in conn),
         is_active |-> (i = act),
         address |-> IF Bound(addr)
                     THEN Strncpy(bt_addr_le_to_str(addr, BT_ADDR_LE_STR_LEN),
                                  PROFILE_INFO_ADDRESS_SIZE - 1)
                     ELSE "",
         name |-> IF Bound(addr) /\ name # ""
                  THEN Strncpy(name, PROFILE_INFO_NAME_SIZE - 1)
                  ELSE ""]

\* One zmk_ble_management_ProfileInfo of handle_get_profiles_request.  act
\* is the answer of zmk_ble_active_profile_index and conn the set of indexes
\* zmk_ble_profile_is_connected answers true for.
ProfileInfo(table, i, act, conn) ==
    LET addr == zmk_ble_profile_address(i)
        name == get_profile_name(table, addr)
    IN  [index |-> i,
         is_open |-> zmk_ble_profile_is_open(i),
         is_connected |-> (i \in conn),
         is_active |-> (i = act),
         address |-> IF Bound(addr)
                     THEN Strncpy(bt_addr_le_to_str(addr, BT_ADDR_LE_STR_LEN),
                                  PROFILE_INFO_ADDRESS_SIZE - 1)
                     ELSE "",
         name |-> IF Bound(addr) /\ name # ""
                  THEN Strncpy(name, PROFILE_INFO_NAME_SIZE - 1)
                  ELSE ""]

\* zmk_ble_management_ProfileInfo_init_zero
ZeroProfileInfo ==
    [index |-> 0, is_open |-> FALSE, is_connected |-> FALSE, is_active |-> FALSE,
     address |-> "", name |-> ""]

\* Variant: the loop stops one profile early and the last entry stays zeroed.
handle_get_profiles_request_SkipsLast(table, act, conn) ==
    [rc |-> 0,
     resp |-> [ZeroResp EXCEPT !.which = "get_profiles",
                               !.max_profiles = ZMK_BLE_PROFILE_COUNT,
                               !.profiles = [i \in Indexes |->
                                             IF i < ZMK_BLE_PROFILE_COUNT - 1
                                             THEN ProfileInfo(table, i, act, conn)
                                             ELSE ZeroProfileInfo]]]

\* handle_get_profiles_request: [rc, resp].
handle_get_profiles_request(table, act, conn) ==
    [rc |-> 0,
     resp |-> [ZeroResp EXCEPT !.which = "get_profiles",
                               !.max_profiles = ZMK_BLE_PROFILE_COUNT,
                               !.profiles = [i \in Indexes |-> ProfileInfo(table, i, act, conn)]]]

\* Variant: each profile is selected before it is queried.
RECURSIVE GetProfilesCalls_Selects(_, _)
GetProfilesCalls_Selects(i, conn) ==
    IF i >= ZMK_BLE_PROFILE_COUNT THEN <<>>
    ELSE <<  <<"zmk_ble_prof_select", i, 0>>,
             <<"zmk_ble_profile_is_open", i, 0>>,
             <<"zmk_ble_profile_is_connected", i, IF i \in conn THEN 1 ELSE 0>>,
             <<"zmk_ble_profile_address", i, 0>>  >> \o
         GetProfilesCalls_Selects(i + 1, conn)

\* The external calls of handle_get_profiles_request, in order.
RECURSIVE GetProfilesCalls(_, _)
GetProfilesCalls(i, conn) ==
    IF i >= ZMK_BLE_PROFILE_COUNT THEN <<>>
    ELSE <<  <<"zmk_ble_profile_is_open", i, 0>>,
             <<"zmk_ble_profile_is_connected", i, IF i \in conn THEN 1 ELSE 0>>,
             <<"zmk_ble_profile_address", i, 0>>  >> \o GetProfilesCalls(i + 1, conn)

\* Variant: the bounds check lets index ZMK_BLE_PROFILE_COUNT through.
handle_set_profile_name_request_OffByOne(req, table, store, wr_rc) ==
    IF req.index > ZMK_BLE_PROFILE_COUNT
    THEN [rc |-> 0, table |-> table, store |-> store, calls |-> <<>>,
          resp |-> [ZeroResp EXCEPT !.which = "set_profile_name", !.success = FALSE]]
    ELSE LET addr == zmk_ble_profile_address(req.index) IN
         IF Bound(addr)
         THEN LET s == save_profile_name(table, store, addr, req.name, wr_rc) IN
              [rc |-> 0, table |-> s.table, store |-> s.store,
               calls |-> <<  <<"zmk_ble_profile_address", req.index, 0>>  >> \o
                         (IF s.wrote
                          THEN <<  <<"settings_save_one", req.index, wr_rc>>  >>
                          ELSE <<>>),
               resp |-> [ZeroResp EXCEPT !.which = "set_profile_name",
                                         !.success = (s.rc = 0)]]
         ELSE [rc |-> 0, table |-> table, store |-> store,
               calls |-> <<  <<"zmk_ble_profile_address", req.index, 0>>  >>,
               resp |-> [ZeroResp EXCEPT !.which = "set_profile_name",
                                         !.success = FALSE]]

\* Variant: the address of the profile is not tested, so a name is saved
\* under BT_ADDR_LE_NONE for a profile with no bond.
handle_set_profile_name_request_NoAddrCheck(req, table, store, wr_rc) ==
    IF req.index >= ZMK_BLE_PROFILE_COUNT
    THEN [rc |-> 0, table |-> table, store |-> store, calls |-> <<>>,
          resp |-> [ZeroResp EXCEPT !.which = "set_profile_name", !.success = FALSE]]
    ELSE LET addr == zmk_ble_profile_address(req.index)
             s == save_profile_name(table, store, addr, req.name, wr_rc)
         IN  [rc |-> 0, table |-> s.table, store |-> s.store,
              calls |-> <<  <<"zmk_ble_profile_address", req.index, 0>>  >> \o
                        (IF s.wrote
                         THEN <<  <<"settings_save_one", req.index, wr_rc>>  >>
                         ELSE <<>>),
              resp |-> [ZeroResp EXCEPT !.which = "set_profile_name",
                                        !.success = (s.rc = 0)]]

\* handle_set_profile_name_request: [rc, resp, table, store, calls].
handle_set_profile_name_request(req, table, store, wr_rc) ==
    IF req.index >= ZMK_BLE_PROFILE_COUNT
    THEN [rc |-> 0, table |-> table, store |-> store, calls |-> <<>>,
          resp |-> [ZeroResp EXCEPT !.which = "set_profile_name", !.success = FALSE]]
    ELSE LET addr == zmk_ble_profile_address(req.index) IN
         IF Bound(addr)
         THEN LET s == save_profile_name(table, store, addr, req.name, wr_rc) IN
              [rc |-> 0, table |-> s.table, store |-> s.store,
               calls |-> <<  <<"zmk_ble_profile_address", req.index, 0>>  >> \o
                         (IF s.wrote
                          THEN <<  <<"settings_save_one", req.index, wr_rc>>  >>
                          ELSE <<>>),
               resp |-> [ZeroResp EXCEPT !.which = "set_profile_name",
                                         !.success = (s.rc = 0)]]
         ELSE [rc |-> 0, table |-> table, store |-> store,
               calls |-> <<  <<"zmk_ble_profile_address", req.index, 0>>  >>,
               resp |-> [ZeroResp EXCEPT !.which = "set_profile_name",
                                         !.success = FALSE]]

\* Variant: the bounds check lets index ZMK_BLE_PROFILE_COUNT through.
handle_switch_profile_request_OffByOne(req, sel_rc) ==
    IF req.index > ZMK_BLE_PROFILE_COUNT
    THEN [rc |-> 0, calls |-> <<>>, selected |-> FALSE,
          resp |-> [ZeroResp EXCEPT !.which = "switch_profile", !.success = FALSE]]
    ELSE [rc |-> 0, calls |-> <<  <<"zmk_ble_prof_select", req.index, sel_rc>>  >>,
          selected |-> (sel_rc = 0),
          resp |-> [ZeroResp EXCEPT !.which = "switch_profile",
                                    !.success = (sel_rc = 0)]]

\* Variant: the result of zmk_ble_prof_select is dropped and the switch is
\* reported as done.
handle_switch_profile_request_AlwaysOk(req, sel_rc) ==
    IF req.index >= ZMK_BLE_PROFILE_COUNT
    THEN [rc |-> 0, calls |-> <<>>, selected |-> FALSE,
          resp |-> [ZeroResp EXCEPT !.which = "switch_profile", !.success = FALSE]]
    ELSE [rc |-> 0, calls |-> <<  <<"zmk_ble_prof_select", req.index, sel_rc>>  >>,
          selected |-> (sel_rc = 0),
          resp |-> [ZeroResp EXCEPT !.which = "switch_profile",
                                    !.success = TRUE]]

\* handle_switch_profile_request: [rc, resp, calls, selected].  sel_rc is the
\* result of zmk_ble_prof_select.
handle_switch_profile_request(req, sel_rc) ==
    IF req.index >= ZMK_BLE_PROFILE_COUNT
    THEN [rc |-> 0, calls |-> <<>>, selected |-> FALSE,
          resp |-> [ZeroResp EXCEPT !.which = "switch_profile", !.success = FALSE]]
    ELSE [rc |-> 0, calls |-> <<  <<"zmk_ble_prof_select", req.index, sel_rc>>  >>,
          selected |-> (sel_rc = 0),
          resp |-> [ZeroResp EXCEPT !.which = "switch_profile",
                                    !.success = (sel_rc = 0)]]

\* Variant: the address of the entry is reset and its name left in place.
RECURSIVE ClearNameLoop_KeepsName(_, _, _)
ClearNameLoop_KeepsName(table, addr, i) ==
    IF i >= ZMK_BLE_PROFILE_COUNT THEN table
    ELSE IF bt_addr_le_eq(table[i].addr, addr)
         THEN [table EXCEPT ![i].addr = BT_ADDR_LE_NONE]
    ELSE ClearNameLoop_KeepsName(table, addr, i + 1)

\* The loop of handle_unpair_profile_request: the first entry holding addr is
\* reset to BT_ADDR_LE_NONE and "".
RECURSIVE ClearNameLoop(_, _, _)
ClearNameLoop(table, addr, i) ==
    IF i >= ZMK_BLE_PROFILE_COUNT THEN table
    ELSE IF bt_addr_le_eq(table[i].addr, addr)
         THEN [table EXCEPT ![i] = EmptyEntry]
    ELSE ClearNameLoop(table, addr, i + 1)

\* The entry that loop resets, as the log records it; nothing when no entry
\* holds addr.
RECURSIVE ClearNameLog(_, _, _)
ClearNameLog(table, addr, i) ==
    IF i >= ZMK_BLE_PROFILE_COUNT THEN <<>>
    ELSE IF bt_addr_le_eq(table[i].addr, addr)
         THEN <<  <<"profile_names_clear", i, 0>>  >>
    ELSE ClearNameLog(table, addr, i + 1)

\* Variant: the name is cleared only once the disconnect has succeeded.
handle_unpair_profile_request_ClearAfter(req, table, store, dis_rc) ==
    IF req.index >= ZMK_BLE_PROFILE_COUNT
    THEN [rc |-> 0, table |-> table, store |-> store, calls |-> <<>>,
          disconnected |-> FALSE,
          resp |-> [ZeroResp EXCEPT !.which = "unpair_profile", !.success = FALSE]]
    ELSE LET addr == zmk_ble_profile_address(req.index) IN
         [rc |-> 0,
          table |-> IF Bound(addr) /\ dis_rc = 0
                    THEN ClearNameLoop(table, addr, 0) ELSE table,
          calls |-> <<  <<"zmk_ble_profile_address", req.index, 0>>,
                        <<"zmk_ble_prof_disconnect", req.index, dis_rc>>  >>,
          store |-> store,
          disconnected |-> (dis_rc = 0),
          resp |-> [ZeroResp EXCEPT !.which = "unpair_profile",
                                    !.success = (dis_rc = 0)]]

\* Variant: the stack is asked to disconnect first and the cache entry is
\* reset afterwards.
handle_unpair_profile_request_DisconnectFirst(req, table, store, dis_rc) ==
    IF req.index >= ZMK_BLE_PROFILE_COUNT
    THEN [rc |-> 0, table |-> table, store |-> store, calls |-> <<>>,
          disconnected |-> FALSE,
          resp |-> [ZeroResp EXCEPT !.which = "unpair_profile", !.success = FALSE]]
    ELSE LET addr == zmk_ble_profile_address(req.index) IN
         [rc |-> 0,
          table |-> IF Bound(addr) THEN ClearNameLoop(table, addr, 0) ELSE table,
          calls |-> <<  <<"zmk_ble_profile_address", req.index, 0>>,
                        <<"zmk_ble_prof_disconnect", req.index, dis_rc>>  >> \o
                    (IF Bound(addr) THEN ClearNameLog(table, addr, 0) ELSE <<>>),
          store |-> store,
          disconnected |-> (dis_rc = 0),
          resp |-> [ZeroResp EXCEPT !.which = "unpair_profile",
                                    !.success = (dis_rc = 0)]]

\* Variant: the bounds check lets index ZMK_BLE_PROFILE_COUNT through.
handle_unpair_profile_request_OffByOne(req, table, store, dis_rc) ==
    IF req.index > ZMK_BLE_PROFILE_COUNT
    THEN [rc |-> 0, table |-> table, store |-> store, calls |-> <<>>,
          disconnected |-> FALSE,
          resp |-> [ZeroResp EXCEPT !.which = "unpair_profile", !.success = FALSE]]
    ELSE LET addr == zmk_ble_profile_address(req.index) IN
         [rc |-> 0,
          table |-> IF Bound(addr) THEN ClearNameLoop(table, addr, 0) ELSE table,
          calls |-> <<  <<"zmk_ble_profile_address", req.index, 0>>  >> \o
                    (IF Bound(addr) THEN ClearNameLog(table, addr, 0) ELSE <<>>) \o
                    <<  <<"zmk_ble_prof_disconnect", req.index, dis_rc>>  >>,
          store |-> store,
          disconnected |-> (dis_rc = 0),
          resp |-> [ZeroResp EXCEPT !.which = "unpair_profile",
                                    !.success = (dis_rc = 0)]]

\* Variant: the record of the address is deleted from the store along with
\* the cache entry.
handle_unpair_profile_request_DeletesRecord(req, table, store, dis_rc) ==
    IF req.index >= ZMK_BLE_PROFILE_COUNT
    THEN [rc |-> 0, table |-> table, store |-> store, calls |-> <<>>,
          disconnected |-> FALSE,
          resp |-> [ZeroResp EXCEPT !.which = "unpair_profile", !.success = FALSE]]
    ELSE LET addr == zmk_ble_profile_address(req.index)
             Kept(r) == r.key # SettingName(addr)
         IN  [rc |-> 0,
              table |-> IF Bound(addr) THEN ClearNameLoop(table, addr, 0) ELSE table,
              calls |-> <<  <<"zmk_ble_profile_address", req.index, 0>>  >> \o
                        (IF Bound(addr) THEN ClearNameLog(table, addr, 0) ELSE <<>>) \o
                        <<  <<"zmk_ble_prof_disconnect", req.index, dis_rc>>  >>,
              store |-> IF Bound(addr) THEN SelectSeq(store, Kept) ELSE store,
              disconnected |-> (dis_rc = 0),
              resp |-> [ZeroResp EXCEPT !.which = "unpair_profile",
                                        !.success = (dis_rc = 0)]]

\* handle_unpair_profile_request: [rc, resp, table, store, calls,
\* disconnected].  dis_rc is the result of zmk_ble_prof_disconnect.  The
\* handler makes no call on the settings subsystem: store comes back as given.
handle_unpair_profile_request(req, table, store, dis_rc) ==
    IF req.index >= ZMK_BLE_PROFILE_COUNT
    THEN [rc |-> 0, table |-> table, store |-> store, calls |-> <<>>,
          disconnected |-> FALSE,
          resp |-> [ZeroResp EXCEPT !.which = "unpair_profile", !.success = FALSE]]
    ELSE LET addr == zmk_ble_profile_address(req.index) IN
         [rc |-> 0,
          table |-> IF Bound(addr) THEN ClearNameLoop(table, addr, 0) ELSE table,
          calls |-> <<  <<"zmk_ble_profile_address", req.index, 0>>  >> \o
                    (IF Bound(addr) THEN ClearNameLog(table, addr, 0) ELSE <<>>) \o
                    <<  <<"zmk_ble_prof_disconnect", req.index, dis_rc>>  >>,
          store |-> store,
          disconnected |-> (dis_rc = 0),
          resp |-> [ZeroResp EXCEPT !.which = "unpair_profile",
                                    !.success = (dis_rc = 0)]]

\* Variant: the two role branches carry each other's flags.
handle_get_split_info_request_RolesSwapped(bonded) ==
    [rc |-> 0,
     calls |-> IF split = "peripheral"
               THEN <<  <<"zmk_split_bt_peripheral_is_bonded", 0,
                          IF bonded THEN 1 ELSE 0>>  >>
               ELSE <<>>,
     resp |-> [ZeroResp EXCEPT
                 !.which = "get_split_info",
                 !.info = [is_split |-> (split # "none"),
                           is_central |-> (split = "peripheral"),
                           is_peripheral |-> (split = "central"),
                           peripheral_connected |-> FALSE,
                           central_bonded |-> (split = "peripheral" /\ bonded)]]]

\* handle_get_split_info_request: [rc, resp, calls].  bonded is the answer
\* of zmk_split_bt_peripheral_is_bonded.
handle_get_split_info_request(bonded) ==
    [rc |-> 0,
     calls |-> IF split = "peripheral"
               THEN <<  <<"zmk_split_bt_peripheral_is_bonded", 0,
                          IF bonded THEN 1 ELSE 0>>  >>
               ELSE <<>>,
     resp |-> [ZeroResp EXCEPT
                 !.which = "get_split_info",
                 !.info = [is_split |-> (split # "none"),
                           is_central |-> (split = "central"),
                           is_peripheral |-> (split = "peripheral"),
                           peripheral_connected |-> FALSE,
                           central_bonded |-> (split = "peripheral" /\ bonded)]]]

\* Variant: the build without split support clears the bonds as well.
handle_forget_split_bond_request_NoSplitCheck ==
    [rc |-> 0,
     calls |-> <<  <<"zmk_ble_clear_all_bonds", 0, 0>>  >>,
     cleared |-> TRUE,
     resp |-> [ZeroResp EXCEPT !.which = "forget_split_bond",
                               !.success = TRUE]]

\* handle_forget_split_bond_request: [rc, resp, calls, cleared].
handle_forget_split_bond_request ==
    [rc |-> 0,
     calls |-> IF split # "none" THEN <<  <<"zmk_ble_clear_all_bonds", 0, 0>>  >>
               ELSE <<>>,
     cleared |-> (split # "none"),
     resp |-> [ZeroResp EXCEPT !.which = "forget_split_bond",
                               !.success = (split # "none")]]

(***************************************************************************)
(* Dispatcher                                                              *)
(***************************************************************************)
\* Variant: a non-zero handler code is dropped and the response left as the
\* handler left it.
FinishRequest_Silent(rc, r) == r

\* Variant: the test of rc is missing and the error response is written
\* after every handler.
FinishRequest_Unconditional(rc, r) ==
    ErrorResp("Failed to process request: " \o DecStr(rc))

\* The tail of ble_management_rpc_handle_request: a non-zero handler code
\* replaces the response by the error response naming the code.
FinishRequest(rc, r) ==
    IF rc # 0
    THEN ErrorResp("Failed to process request: " \o DecStr(rc))
    ELSE r

\* The response of a payload pb_decode rejects.
DecodeFailureResp == ErrorResp("Failed to decode request")

\* The value ble_management_rpc_handle_request returns on every path.
HandleRequestReturn == TRUE

\* What the response buffer of the subsystem may hold when a request
\* arrives: nothing, or the members earlier requests wrote into it.
StaleBuffers ==
    LET stale ==
          [which |-> "unpair_profile", success |-> TRUE,
           message |-> "Failed to decode request",
           max_profiles |-> ZMK_BLE_PROFILE_COUNT,
           profiles |-> [i \in Indexes |-> [ZeroProfileInfo EXCEPT !.name = "Stale"]],
           info |-> [is_split |-> TRUE, is_central |-> TRUE, is_peripheral |-> TRUE,
                     peripheral_connected |-> TRUE, central_bonded |-> TRUE]]
    IN  {ZeroResp, stale, [stale EXCEPT !.which = "get_profiles"]}

\* Variant: only which_response_type is assigned; the member is filled in
\* place without being zeroed, so what the buffer held stays.
Written_TagOnly(buf, r) == [buf EXCEPT !.which = r.which]

\* The two assignments that end every handler and both error paths:
\* which_response_type, then the whole member from a zero-initialised
\* local.  The rest of the buffer is not touched.
Written(buf, r) ==
    IF r.which = "none" THEN buf
    ELSE [which |-> r.which,
          success |-> IF r.which \in RequestTags \ {"get_profiles", "get_split_info"} THEN r.success ELSE buf.success,
          message |-> IF r.which = "error" THEN r.message ELSE buf.message,
          max_profiles |-> IF r.which = "get_profiles" THEN r.max_profiles
                           ELSE buf.max_profiles,
          profiles |-> IF r.which = "get_profiles" THEN r.profiles ELSE buf.profiles,
          info |-> IF r.which = "get_split_info" THEN r.info ELSE buf.info]

\* What the transport encodes from the buffer: the member which_response_type
\* selects and nothing else.
Encoded(buf) ==
    [which |-> buf.which,
     success |-> IF buf.which \in RequestTags \ {"get_profiles", "get_split_info"} THEN buf.success ELSE ZeroResp.success,
     message |-> IF buf.which = "error" THEN buf.message ELSE ZeroResp.message,
     max_profiles |-> IF buf.which = "get_profiles" THEN buf.max_profiles
                      ELSE ZeroResp.max_profiles,
     profiles |-> IF buf.which = "get_profiles" THEN buf.profiles ELSE ZeroResp.profiles,
     info |-> IF buf.which = "get_split_info" THEN buf.info ELSE ZeroResp.info]

\* What every request step records.  The response is written into the
\* buffer as earlier requests left it.
Answer(req, r, hs, cs) ==
    /\ last' = req
    /\ \E buf \in StaleBuffers, answer \in {r} :
         \E written \in {Written(buf, answer)} : resp' = Encoded(written)
    /\ ret' = HandleRequestReturn
    /\ handlers' = hs
    /\ calls' = cs
    /\ replays' = 0
    /\ snap' = NoSnap
    /\ phase' = "responded"
    /\ UNCHANGED <<cursor, split, web>>

\* What every other step records.
NoRequest ==
    /\ last' = IdleReq
    /\ resp' = ZeroResp
    /\ ret' = FALSE
    /\ handlers' = <<>>
    /\ calls' = <<>>
    /\ UNCHANGED web

(***************************************************************************)
(* Requests                                                                *)
(***************************************************************************)
\* Results of zmk_ble_prof_select and zmk_ble_prof_disconnect: 0 or -ENODEV.
StackRcs == {0, -19}

\* Results of settings_save_one: 0 or -EIO.
WriteRcs == {0, -5}

\* Only a bonded profile can be connected.
GetProfiles ==
    /\ phase = "serve"
    /\ \E act \in Indexes, conn \in SUBSET {i \in Indexes : Bound(peer[i])} :
         LET h == handle_get_profiles_request(profile_names, act, conn) IN
         Answer(Req("get_profiles", 0, ""), FinishRequest(h.rc, h.resp),
                <<"handle_get_profiles_request">>,
                <<  <<"zmk_ble_active_profile_index", 0, act>>  >> \o
                GetProfilesCalls(0, conn))
    /\ UNCHANGED <<store_vars, stack_vars>>

SetProfileName ==
    /\ phase = "serve"
    /\ \E i \in ReqIndexes, n \in ReqNames, wr_rc \in WriteRcs :
         LET req == Req("set_profile_name", i, n)
             h == handle_set_profile_name_request(req, profile_names, settings, wr_rc)
         IN  /\ profile_names' = h.table
             /\ settings' = h.store
             /\ Answer(req, FinishRequest(h.rc, h.resp),
                       <<"handle_set_profile_name_request">>, h.calls)
    /\ UNCHANGED stack_vars

SwitchProfile ==
    /\ phase = "serve"
    /\ \E i \in ReqIndexes, sel_rc \in StackRcs :
         LET req == Req("switch_profile", i, "")
             h == handle_switch_profile_request(req, sel_rc)
         IN  Answer(req, FinishRequest(h.rc, h.resp),
                    <<"handle_switch_profile_request">>, h.calls)
    /\ UNCHANGED <<store_vars, stack_vars>>

\* After zmk_ble_prof_disconnect succeeds the stack may or may not have
\* forgotten the peer.
UnpairProfile ==
    /\ phase = "serve"
    /\ \E i \in ReqIndexes, dis_rc \in StackRcs, forgets \in BOOLEAN :
         LET req == Req("unpair_profile", i, "")
             h == handle_unpair_profile_request(req, profile_names, settings, dis_rc)
         IN  /\ profile_names' = h.table
             /\ settings' = h.store
             /\ peer' = IF h.disconnected /\ forgets
                        THEN [peer EXCEPT ![i] = BT_ADDR_LE_NONE] ELSE peer
             /\ Answer(req, FinishRequest(h.rc, h.resp),
                       <<"handle_unpair_profile_request">>, h.calls)

GetSplitInfo ==
    /\ phase = "serve"
    /\ \E bonded \in BOOLEAN :
         LET h == handle_get_split_info_request(bonded) IN
         Answer(Req("get_split_info", 0, ""), FinishRequest(h.rc, h.resp),
                <<"handle_get_split_info_request">>, h.calls)
    /\ UNCHANGED <<store_vars, stack_vars>>

\* zmk_ble_clear_all_bonds forgets every peer.
ForgetSplitBond ==
    /\ phase = "serve"
    /\ LET h == handle_forget_split_bond_request IN
         /\ peer' = IF h.cleared THEN [i \in Indexes |-> BT_ADDR_LE_NONE] ELSE peer
         /\ Answer(Req("forget_split_bond", 0, ""), FinishRequest(h.rc, h.resp),
                   <<"handle_forget_split_bond_request">>, h.calls)
    /\ UNCHANGED store_vars

\* Variant: the default arm forgets to set rc, so the untouched response
\* buffer is returned.
UnsupportedRequest_NoCode ==
    /\ phase = "serve"
    /\ Answer(Req("none", 0, ""), FinishRequest(0, ZeroResp), <<>>, <<>>)
    /\ UNCHANGED <<store_vars, stack_vars>>

\* The default arm of the switch: no handler, rc = -ENOTSUP.
UnsupportedRequest ==
    /\ phase = "serve"
    /\ Answer(Req("none", 0, ""), FinishRequest(0 - ENOTSUP, ZeroResp), <<>>, <<>>)
    /\ UNCHANGED <<store_vars, stack_vars>>

\* Variant: the decode-failure branch does not return, so the zeroed request
\* falls through to the default arm of the switch.
DecodeFailure_FallsThrough ==
    /\ phase = "serve"
    /\ Answer(UndecodableReq, FinishRequest(0 - ENOTSUP, DecodeFailureResp), <<>>, <<>>)
    /\ UNCHANGED <<store_vars, stack_vars>>

\* pb_decode rejects the payload.
DecodeFailure ==
    /\ phase = "serve"
    /\ Answer(UndecodableReq, DecodeFailureResp, <<>>, <<>>)
    /\ UNCHANGED <<store_vars, stack_vars>>

\* The transport runtime sends the response; the dispatcher awaits the next
\* request.
SendResponse ==
    /\ phase = "responded"
    /\ phase' = "serve"
    /\ NoRequest
    /\ UNCHANGED <<store_vars, stack_vars, cursor, replays, snap, split>>

(***************************************************************************)
(* Settings load and restart                                               *)
(***************************************************************************)
Tainted == <<"read failed">>

\* The settings subsystem hands the next stored record to the callback and
\* gets its return value.
Replay ==
    /\ phase \in {"boot", "reload"}
    /\ cursor < Len(settings)
    /\ \E rd_ok \in (IF ReadReached(profile_names, settings[cursor + 1].key)
                     THEN BOOLEAN ELSE {TRUE}) :
         /\ profile_names' =
               profile_names_settings_set(profile_names, settings[cursor + 1].key,
                                          settings[cursor + 1].value, rd_ok)
         /\ calls' = <<  <<"profile_names_settings_set", cursor + 1,
                            profile_names_settings_set_rc(
                                profile_names, settings[cursor + 1].key,
                                settings[cursor + 1].value, rd_ok)>>  >>
         /\ cursor' = cursor + 1
         /\ snap' = IF rd_ok THEN snap ELSE Tainted
    /\ last' = IdleReq
    /\ resp' = ZeroResp
    /\ ret' = FALSE
    /\ handlers' = <<>>
    /\ UNCHANGED <<settings, phase, replays, stack_vars, split, web>>

\* The load has replayed every record.
EndReplay ==
    /\ phase \in {"boot", "reload"}
    /\ cursor = Len(settings)
    /\ phase' = "serve"
    /\ replays' = IF snap = Tainted THEN 0
                  ELSE IF snap = NoSnap THEN 1
                  ELSE 2
    /\ snap' = IF snap = Tainted THEN NoSnap
               ELSE IF snap = NoSnap THEN profile_names
               ELSE snap
    /\ last' = Req(phase, 0, "")
    /\ resp' = ZeroResp
    /\ ret' = FALSE
    /\ handlers' = <<>>
    /\ calls' = <<>>
    /\ UNCHANGED <<store_vars, cursor, stack_vars, split, web>>

\* settings_load() called again right after a completed load.
SettingsLoad ==
    /\ phase = "serve"
    /\ last.tag \in {"boot", "reload"}
    /\ replays = 1
    /\ phase' = "reload"
    /\ cursor' = 0
    /\ NoRequest
    /\ UNCHANGED <<store_vars, replays, snap, stack_vars, split>>

\* Power cycle: profile_names_init, then the settings load.  Bonds are kept
\* by the stack.
Restart ==
    /\ phase = "serve"
    /\ profile_names' = profile_names_init
    /\ phase' = "boot"
    /\ cursor' = 0
    /\ replays' = 0
    /\ snap' = NoSnap
    /\ NoRequest
    /\ UNCHANGED <<settings, peer, split>>

(***************************************************************************)
(* The wireless stack acting on its own                                    *)
(***************************************************************************)
EnvStep ==
    /\ phase = "serve"
    /\ NoRequest
    /\ replays' = 0
    /\ snap' = NoSnap
    /\ UNCHANGED <<store_vars, phase, cursor, split>>

\* A host pairs with an open profile; no peer holds two profiles.
Pair ==
    /\ EnvStep
    /\ \E i \in Indexes, a \in PeerAddrs :
         /\ ~Bound(peer[i])
         /\ \A j \in Indexes : ~bt_addr_le_eq(peer[j], a)
         /\ peer' = [peer EXCEPT ![i] = a]

\* A bond is cleared from the keyboard itself.
BondCleared ==
    /\ EnvStep
    /\ \E i \in Indexes :
         /\ Bound(peer[i])
         /\ peer' = [peer EXCEPT ![i] = BT_ADDR_LE_NONE]

\* The host bonded to profile i clears that bond and bonds to the open
\* profile j: the address moves from index i to index j.
Rebind ==
    /\ phase = "serve"
    /\ \E i, j \in Indexes :
         /\ Bound(peer[i])
         /\ ~Bound(peer[j])
         /\ peer' = [peer EXCEPT ![i] = BT_ADDR_LE_NONE, ![j] = peer[i]]
         /\ last' = Req("rebind", j, "")
    /\ resp' = ZeroResp
    /\ ret' = FALSE
    /\ handlers' = <<>>
    /\ calls' = <<>>
    /\ replays' = 0
    /\ snap' = NoSnap
    /\ UNCHANGED <<store_vars, phase, cursor, split, web>>

(***************************************************************************)
(* Specification                                                           *)
(***************************************************************************)
Init ==
    /\ profile_names = profile_names_init
    /\ settings \in {EmptyStore, StoredAtBoot, StoredLong}
    /\ phase = "boot"
    /\ cursor = 0
    /\ replays = 0
    /\ snap = NoSnap
    /\ peer = [i \in Indexes |-> BT_ADDR_LE_NONE]
    /\ split = "peripheral"
    /\ last = IdleReq
    /\ resp = ZeroResp
    /\ ret = FALSE
    /\ handlers = <<>>
    /\ calls = <<>>
    /\ web = WebClosed

Next ==
    \/ GetProfiles
    \/ SetProfileName
    \/ SwitchProfile
    \/ UnpairProfile
    \/ GetSplitInfo
    \/ ForgetSplitBond
    \/ UnsupportedRequest
    \/ DecodeFailure
    \/ SendResponse
    \/ Replay
    \/ EndReplay
    \/ SettingsLoad
    \/ Restart
    \/ Pair
    \/ BondCleared
    \/ Rebind

Spec == Init /\ [][Next]_vars

(***************************************************************************)
(* Properties                                                              *)
(***************************************************************************)
\* The name ListProfiles reports for profile i in the current state,
\* whatever the stack answers for the active index and the connections.
ListedNames(i) ==
    {handle_get_profiles_request(profile_names, act, conn).resp.profiles[i].name :
        act \in Indexes, conn \in SUBSET Indexes}

\* The request just handled and its kind.
Handled(tag) == phase = "responded" /\ last.tag = tag

\* The request just handled reached settings_save_one and the write succeeded.
WriteSucceeded ==
    \E c \in 1..Len(calls) : calls[c][1] = "settings_save_one" /\ calls[c][3] = 0

\* C1: after RenameProfile(i, name) on a valid index with a bound address and
\* a successful durable write, the response is success=true and ListProfiles
\* reports name cut to 31 bytes for profile i.
C1_RenameThenList ==
    (/\ Handled("set_profile_name")
     /\ last.index < ZMK_BLE_PROFILE_COUNT
     /\ Bound(peer[last.index])
     /\ WriteSucceeded)
    => /\ resp.which = "set_profile_name"
       /\ resp.success
       /\ ListedNames(last.index) = {Strncpy(last.name, 31)}

\* A rename of a name longer than 31 bytes succeeded and the name is listed
\* cut to 31 bytes.
C1_Witness ==
    /\ Handled("set_profile_name")
    /\ last.index < ZMK_BLE_PROFILE_COUNT
    /\ Bound(peer[last.index])
    /\ WriteSucceeded
    /\ Len(last.name) > 31
    /\ ListedNames(last.index) = {Repeat("x", 31)}

\* C2: once a boot has replayed the settings store with every read
\* succeeding, every profile whose address has a name record in the store is
\* listed with that name cut to 31 bytes.
C2_NamesSurviveRestart ==
    (phase = "serve" /\ last.tag = "boot" /\ replays = 1)
    => \A i \in Indexes :
          (Bound(peer[i]) /\ SettingName(peer[i]) \in StoreKeys(settings))
          => ListedNames(i) = {Strncpy(StoreValue(settings, SettingName(peer[i])), 31)}

\* C3: after UnpairProfile(i) on a valid index ListProfiles reports the
\* empty name for profile i, whether the disconnect succeeded or failed.
C3_UnpairThenList ==
    (Handled("unpair_profile") /\ last.index < ZMK_BLE_PROFILE_COUNT)
    => ListedNames(last.index) = {""}

\* An unpair whose disconnect failed: the profile is still bound to an
\* address a name was saved for, and the name is gone from the cache.
C3_Witness ==
    /\ Handled("unpair_profile")
    /\ last.index < ZMK_BLE_PROFILE_COUNT
    /\ ~resp.success
    /\ Bound(peer[last.index])
    /\ SettingName(peer[last.index]) \in StoreKeys(settings)
    /\ ListedNames(last.index) = {""}

\* C4: no two cache entries hold the same address other than BT_ADDR_LE_NONE.
C4_UniqueAddresses ==
    \A i, j \in Indexes :
        (i # j /\ Bound(profile_names[i].addr))
        => ~bt_addr_le_eq(profile_names[i].addr, profile_names[j].addr)

\* A full cache: a hydrated entry next to one a rename allocated.
C4_Witness ==
    /\ \A i \in Indexes : Bound(profile_names[i].addr)
    /\ \E i \in Indexes : profile_names[i].name = "Desk"
    /\ \E i \in Indexes : profile_names[i].name = "Laptop"

\* C5: SwitchProfile with an index out of range answers success=false in a
\* SwitchProfileResponse and calls nothing in the wireless stack.
C5_SwitchOutOfRange ==
    (Handled("switch_profile") /\ last.index >= ZMK_BLE_PROFILE_COUNT)
    => /\ resp.which = "switch_profile"
       /\ ~resp.success
       /\ calls = <<>>

C5_Witness ==
    /\ Handled("switch_profile")
    /\ last.index >= ZMK_BLE_PROFILE_COUNT
    /\ ~resp.success

\* C6: SetProfileName with an index out of range answers success=false in a
\* SetProfileNameResponse, changes no cache entry and writes nothing to the
\* settings store.
C6_RenameOutOfRange ==
    [][(/\ phase' = "responded"
        /\ last'.tag = "set_profile_name"
        /\ last'.index >= ZMK_BLE_PROFILE_COUNT)
       => /\ resp'.which = "set_profile_name"
          /\ ~resp'.success
          /\ profile_names' = profile_names
          /\ settings' = settings
          /\ calls' = <<>>]_vars

\* An out-of-range rename arrived while profile 0 was bound and the cache
\* had a free entry.
C6_Witness ==
    /\ Handled("set_profile_name")
    /\ last.index >= ZMK_BLE_PROFILE_COUNT
    /\ ~resp.success
    /\ Bound(peer[0])
    /\ \E i \in Indexes : ~Bound(profile_names[i].addr)

\* C8: every request handled has produced exactly one populated response
\* and the handler has returned true; the transport can then send it, and a
\* dispatcher awaiting a request accepts every kind of request.
C8_OneResponsePerRequest ==
    /\ (phase = "responded")
       => /\ last.tag \in RequestTags \cup {"none", "undecodable"}
          /\ ret = TRUE
          /\ resp.which \in ResponseTags
          /\ ENABLED SendResponse
    /\ (phase = "serve")
       => /\ ENABLED GetProfiles
          /\ ENABLED SetProfileName
          /\ ENABLED SwitchProfile
          /\ ENABLED UnpairProfile
          /\ ENABLED GetSplitInfo
          /\ ENABLED ForgetSplitBond
          /\ ENABLED UnsupportedRequest
          /\ ENABLED DecodeFailure

\* A failed request has been answered (a rename the full cache refused) and
\* the response is a populated SetProfileNameResponse.
C8_Witness ==
    /\ Handled("set_profile_name")
    /\ last.index < ZMK_BLE_PROFILE_COUNT
    /\ Bound(peer[last.index])
    /\ ~resp.success
    /\ calls = <<  <<"zmk_ble_profile_address", last.index, 0>>  >>
    /\ ret = TRUE

\* C9: a payload that fails to decode is answered by the ErrorResponse
\* "Failed to decode request"; no handler runs, nothing is called and the
\* cache, the settings store and the stack are left as they were.
C9_DecodeFailure ==
    [][(phase' = "responded" /\ last'.tag = "undecodable")
       => /\ resp' = [ZeroResp EXCEPT !.which = "error",
                                      !.message = "Failed to decode request"]
          /\ handlers' = <<>>
          /\ calls' = <<>>
          /\ UNCHANGED <<profile_names, settings, peer>>]_vars

\* An undecodable payload arrived while the cache held a name.
C9_Witness ==
    /\ Handled("undecodable")
    /\ resp.which = "error"
    /\ \E i \in Indexes : profile_names[i].name # ""

C11_NamesFollowAddresses ==
    [][/\ (phase' = "responded" /\ last'.tag = "get_profiles")
          => \A i \in Indexes :
                IF Bound(peer'[i])
                THEN /\ resp'.profiles[i].name =
                            Strncpy(get_profile_name(profile_names', peer'[i]), 31)
                     /\ resp'.profiles[i].address # ""
                ELSE /\ resp'.profiles[i].name = ""
                     /\ resp'.profiles[i].address = ""
       /\ (last'.tag = "rebind")
          => \E i, j \in Indexes :
                /\ j = last'.index
                /\ i # j
                /\ Bound(peer[i])
                /\ peer'[j] = peer[i]
                /\ ListedNames(j)' = ListedNames(i)
                /\ ListedNames(i)' = {""}]_vars

\* An address with a saved name has just moved to profile 1: the name is
\* listed at 1 and no longer at 0, while the cache keeps it in entry 0.
C11_Witness ==
    /\ last.tag = "rebind"
    /\ last.index = 1
    /\ profile_names[0].name = "Laptop"
    /\ bt_addr_le_eq(profile_names[0].addr, peer[1])
    /\ ListedNames(1) = {"Laptop"}
    /\ ListedNames(0) = {""}

\* C12: a ListProfiles response holds ZMK_BLE_PROFILE_COUNT entries and
\* max_profiles = ZMK_BLE_PROFILE_COUNT; entry i carries index i, the
\* stack's open and connected state of profile i, and is_active exactly when
\* i is the active profile index, so at most one entry is active; right
\* after a boot that found no stored record every name is "".
C12_ListShape ==
    [][(phase' = "responded" /\ last'.tag = "get_profiles")
       => /\ resp'.which = "get_profiles"
          /\ resp'.max_profiles = ZMK_BLE_PROFILE_COUNT
          /\ DOMAIN resp'.profiles = 0..(ZMK_BLE_PROFILE_COUNT - 1)
          /\ calls'[1][1] = "zmk_ble_active_profile_index"
          /\ \A i \in DOMAIN resp'.profiles :
                /\ resp'.profiles[i].index = i
                /\ resp'.profiles[i].is_open = ~Bound(peer'[i])
                /\ calls'[3 * i + 3][1] = "zmk_ble_profile_is_connected"
                /\ calls'[3 * i + 3][2] = i
                /\ resp'.profiles[i].is_connected = (calls'[3 * i + 3][3] = 1)
                /\ resp'.profiles[i].is_active = (i = calls'[1][3])
          /\ Cardinality({i \in DOMAIN resp'.profiles :
                             resp'.profiles[i].is_active}) <= 1
          /\ (last.tag = "boot" /\ settings = EmptyStore)
             => \A i \in DOMAIN resp'.profiles : resp'.profiles[i].name = ""]_vars

\* A list with the last profile bonded, connected and active and the first
\* one open.
C12_Witness ==
    /\ Handled("get_profiles")
    /\ resp.profiles[0].is_open
    /\ ~resp.profiles[0].is_active
    /\ ~resp.profiles[1].is_open
    /\ resp.profiles[1].is_connected
    /\ resp.profiles[1].is_active

\* The positions of the log of the request just handled that record fn.
CallsOf(fn) == {c \in 1..Len(calls) : calls[c][1] = fn}

\* C13: UnpairProfile on a valid index calls the disconnect primitive exactly
\* once, for that index, and answers success exactly when it returned 0,
\* whether or not the cache held a name; when the profile is bound, the cache
\* entry of its address has been reset before that call is made.
C13_UnpairOrder ==
    [][(phase' = "responded" /\ last'.tag = "unpair_profile"
           /\ last'.index < ZMK_BLE_PROFILE_COUNT)
       => /\ resp'.which = "unpair_profile"
          /\ Cardinality(CallsOf("zmk_ble_prof_disconnect")') = 1
          /\ \A d \in CallsOf("zmk_ble_prof_disconnect")' :
                /\ calls'[d][2] = last'.index
                /\ resp'.success = (calls'[d][3] = 0)
                /\ \A c \in CallsOf("profile_names_clear")' : c < d
          /\ \A k \in Indexes :
                (Bound(peer[last'.index])
                    /\ bt_addr_le_eq(profile_names[k].addr, peer[last'.index]))
                => /\ CallsOf("profile_names_clear")' # {}
                   /\ \A j \in Indexes :
                         ~bt_addr_le_eq(profile_names'[j].addr, peer[last'.index])]_vars

\* An unpair of a named profile whose disconnect failed: the entry was reset,
\* then the stack was called once.
C13_Witness ==
    /\ Handled("unpair_profile")
    /\ last.index < ZMK_BLE_PROFILE_COUNT
    /\ Len(calls) = 3
    /\ calls[2][1] = "profile_names_clear"
    /\ calls[3][1] = "zmk_ble_prof_disconnect"
    /\ calls[3][3] # 0
    /\ ~resp.success

\* C14: SwitchProfile on a valid index calls zmk_ble_prof_select exactly
\* once, for that index and nothing else, and answers success exactly when
\* the call returned 0.
C14_SwitchValid ==
    (Handled("switch_profile") /\ last.index < ZMK_BLE_PROFILE_COUNT)
    => /\ resp.which = "switch_profile"
       /\ Len(calls) = 1
       /\ calls[1][1] = "zmk_ble_prof_select"
       /\ calls[1][2] = last.index
       /\ resp.success = (calls[1][3] = 0)

\* A switch to the last profile that the stack refused.
C14_Witness ==
    /\ Handled("switch_profile")
    /\ last.index = ZMK_BLE_PROFILE_COUNT - 1
    /\ calls = <<  <<"zmk_ble_prof_select", last.index, -19>>  >>
    /\ ~resp.success

\* C15: SetProfileName on a valid index whose profile has no bonded address
\* answers success=false, changes no cache entry and writes nothing to the
\* settings store.
C15_RenameUnbound ==
    [][(/\ phase' = "responded"
        /\ last'.tag = "set_profile_name"
        /\ last'.index < ZMK_BLE_PROFILE_COUNT
        /\ ~Bound(peer[last'.index]))
       => /\ resp'.which = "set_profile_name"
          /\ ~resp'.success
          /\ profile_names' = profile_names
          /\ settings' = settings
          /\ CallsOf("settings_save_one")' = {}]_vars

\* A rename of an open profile arrived while the other profile was bonded
\* and the cache had a free entry.
C15_Witness ==
    /\ Handled("set_profile_name")
    /\ last.index < ZMK_BLE_PROFILE_COUNT
    /\ ~Bound(peer[last.index])
    /\ \E i \in Indexes : Bound(peer[i])
    /\ \E i \in Indexes : ~Bound(profile_names[i].addr)
    /\ ~resp.success

\* C21: when settings_save_one fails during SetProfileName the response is
\* SetProfileNameResponse with success = false and the store is as before,
\* yet the cache already holds the new name for the address: ListProfiles
\* reports the new name (cut to 31 bytes) for the profile.
C21_WriteFailure ==
    [][\A i \in Indexes :
         (/\ Handled("set_profile_name")'
          /\ last'.index = i
          /\ \E c \in CallsOf("settings_save_one")' : calls'[c][3] # 0)
         => /\ resp'.which = "set_profile_name"
            /\ ~resp'.success
            /\ settings' = settings
            /\ get_profile_name(profile_names, peer[i])' = Strncpy(last'.name, 31)
            /\ ListedNames(i)' = {Strncpy(last'.name, 31)}]_vars

\* A rename whose write failed on a device that has stored nothing: the
\* response says failure, the store has no record, the list shows the name.
C21_Witness ==
    /\ Handled("set_profile_name")
    /\ last.index < ZMK_BLE_PROFILE_COUNT
    /\ \E c \in CallsOf("settings_save_one") : calls[c][3] # 0
    /\ ~resp.success
    /\ settings = EmptyStore
    /\ last.name = "Laptop"
    /\ ListedNames(last.index) = {"Laptop"}

\* The cache holds an address other than BT_ADDR_LE_NONE in every entry and
\* addr in none.
FullWithout(addr) ==
    \A k \in Indexes :
        /\ Bound(profile_names[k].addr)
        /\ ~bt_addr_le_eq(profile_names[k].addr, addr)

\* C22: SetProfileName for a bonded profile whose address is in no entry of
\* a cache with no free entry answers SetProfileNameResponse with
\* success = false (not the error response), changes no entry and calls
\* settings_save_one not at all.
C22_TableFull ==
    [][\A i \in Indexes :
         (/\ Handled("set_profile_name")'
          /\ last'.index = i
          /\ Bound(peer[i])
          /\ FullWithout(peer[i]))
         => /\ resp'.which = "set_profile_name"
            /\ ~resp'.success
            /\ profile_names' = profile_names
            /\ settings' = settings
            /\ CallsOf("settings_save_one")' = {}]_vars

\* A rename refused for lack of an entry: both entries were hydrated with
\* other addresses and the profile is bonded to a third.
C22_Witness ==
    /\ Handled("set_profile_name")
    /\ last.index < ZMK_BLE_PROFILE_COUNT
    /\ Bound(peer[last.index])
    /\ FullWithout(peer[last.index])
    /\ resp.which = "set_profile_name"
    /\ ~resp.success
    /\ calls = <<  <<"zmk_ble_profile_address", last.index, 0>>  >>

\* C24: UnpairProfile makes no call on the settings subsystem and leaves
\* the store as it was, the record of the address it removes from the cache
\* included; when the profile has no bond or no cache entry holds its
\* address the cache is unchanged and the request goes on to the disconnect
\* and answers UnpairProfileResponse with its result.
C24_UnpairKeepsStore ==
    [][Handled("unpair_profile")'
       => /\ settings' = settings
          /\ \A c \in 1..Len(calls') : calls'[c][1] \notin {"settings_save_one", "settings_delete"}
          /\ \A i \in Indexes :
                (/\ last'.index = i
                 /\ \A k \in Indexes :
                       \/ ~Bound(peer[i])
                       \/ ~bt_addr_le_eq(profile_names[k].addr, peer[i]))
                => /\ profile_names' = profile_names
                   /\ resp'.which = "unpair_profile"
                   /\ \E c \in CallsOf("zmk_ble_prof_disconnect")' :
                         resp'.success = (calls'[c][3] = 0)]_vars

\* An unpair that removed the cache entry of an address with a record in the
\* store: the record is still there.
C24_Witness ==
    /\ Handled("unpair_profile")
    /\ last.index < ZMK_BLE_PROFILE_COUNT
    /\ resp.success
    /\ CallsOf("profile_names_clear") # {}
    /\ Bound(peer[last.index])
    /\ SettingName(peer[last.index]) \in StoreKeys(settings)
    /\ StoreValue(settings, SettingName(peer[last.index])) = "Laptop"
    /\ \A k \in Indexes : ~bt_addr_le_eq(profile_names[k].addr, peer[last.index])

\* C25: a record whose key profile_names_settings_set cannot parse into an
\* address, or whose address finds neither its own entry nor a free one,
\* leaves the cache as it was; the callback returns 0 for every record,
\* these included, and the load moves on to the next record.
C25_HydrateSkips ==
    [][(CallsOf("profile_names_settings_set")' # {})
       => /\ calls'[1][3] = 0
          /\ cursor' = cursor + 1
          /\ calls'[1][2] = cursor'
          /\ ~ReadReached(profile_names, settings[cursor + 1].key)
             => profile_names' = profile_names]_vars

\* A boot has replayed the whole store, in which one key held no address
\* and one address found the cache full: the cache holds the first two.
C25_Witness ==
    /\ phase = "boot"
    /\ settings = StoredAtBoot
    /\ cursor = Len(settings)
    /\ ~ParseSettingAddr(settings[cursor].key).ok
    /\ ParseSettingAddr(settings[cursor - 1].key).ok
    /\ FindSlot(profile_names, ParseSettingAddr(settings[cursor - 1].key).addr) = -1
    /\ calls = <<  <<"profile_names_settings_set", cursor, 0>>  >>

\* C26: when the settings load hands profile_names_settings_set a record
\* under the key save_profile_name writes for an address, the cache becomes
\* what save_profile_name makes of it for that address and the stored name:
\* same entry, same address, same name cut to 31 bytes.
C26_HydrateAsUpsert ==
    [][\A a \in PeerAddrs :
         (/\ CallsOf("profile_names_settings_set")' # {}
          /\ settings[cursor + 1].key = SettingName(a))
         => profile_names' =
               save_profile_name(profile_names, settings, a,
                                 settings[cursor + 1].value, 0).table]_vars

\* C27: every cache entry holding BT_ADDR_LE_NONE has the empty name, and
\* no entry has a name longer than 31 bytes.
C27_EntryShape ==
    \A i \in Indexes :
        /\ bt_addr_le_eq(profile_names[i].addr, BT_ADDR_LE_NONE)
           => profile_names[i].name = ""
        /\ Len(profile_names[i].name) <= NAME_SIZE - 1

\* An unpair has just reset the entry a rename had filled, while the other
\* entry holds a name the settings load cut to 31 bytes.
C27_Witness ==
    /\ Handled("unpair_profile")
    /\ CallsOf("profile_names_clear") # {}
    /\ Len(settings) = 2
    /\ settings[1] = StoredLong[1]
    /\ profile_names[0].addr = [type |-> 1, val |-> Val(1)]
    /\ profile_names[0].name = Repeat("x", NAME_SIZE - 1)
    /\ profile_names[1] = EmptyEntry

\* The entries of the cache that hold addr, and those that hold
\* BT_ADDR_LE_NONE.
Holding(addr) == {k \in Indexes : bt_addr_le_eq(profile_names[k].addr, addr)}

\* The lowest index of a non-empty set of entries.
Lowest(S) == CHOOSE k \in S : \A j \in S : k <= j

\* C28: a rename, an unpair and a replayed record each change at most one
\* cache entry.  A rename for an address the cache holds rewrites that
\* entry; for a new address it writes the lowest entry holding
\* BT_ADDR_LE_NONE; with neither it changes nothing.  An unpair resets the
\* entry holding the address of the profile and no other.
C28_OneEntryChanges ==
    [][/\ (phase' = "responded" \/ CallsOf("profile_names_settings_set")' # {})
          => Cardinality({k \in Indexes : profile_names'[k] # profile_names[k]}) <= 1
       /\ \A i \in Indexes :
             (Handled("set_profile_name")' /\ last'.index = i /\ Bound(peer[i]))
             => LET entry == [addr |-> peer[i], name |-> Strncpy(last'.name, NAME_SIZE - 1)]
                IN  profile_names' =
                       IF Holding(peer[i]) # {}
                       THEN [profile_names EXCEPT ![Lowest(Holding(peer[i]))] = entry]
                       ELSE IF Holding(BT_ADDR_LE_NONE) # {}
                       THEN [profile_names EXCEPT ![Lowest(Holding(BT_ADDR_LE_NONE))] = entry]
                       ELSE profile_names
       /\ \A i \in Indexes :
             (Handled("unpair_profile")' /\ last'.index = i)
             => profile_names' =
                   IF Bound(peer[i]) /\ Holding(peer[i]) # {}
                   THEN [profile_names EXCEPT ![Lowest(Holding(peer[i]))] = EmptyEntry]
                   ELSE profile_names]_vars

\* A rename for profile 1 on an empty cache: the name is in entry 0, the
\* lowest free entry, and entry 1 is as it was.
C28_Witness ==
    /\ Handled("set_profile_name")
    /\ last.index = 1
    /\ resp.success
    /\ bt_addr_le_eq(profile_names[0].addr, peer[1])
    /\ profile_names[0].name = "Laptop"
    /\ profile_names[1] = EmptyEntry

\* C29: UnpairProfile with an index of ZMK_BLE_PROFILE_COUNT or more answers
\* UnpairProfileResponse with success = false, calls nothing and leaves the
\* cache, the store and the stack as they were; SetProfileName and
\* SwitchProfile with such an index likewise answer with their own response
\* and success = false, never with the error response.
C29_IndexOutOfRange ==
    [][(/\ phase' = "responded"
        /\ last'.tag \in {"set_profile_name", "switch_profile", "unpair_profile"}
        /\ last'.index >= ZMK_BLE_PROFILE_COUNT)
       => /\ resp'.which = last'.tag
          /\ resp'.which # "error"
          /\ ~resp'.success
          /\ last'.tag = "unpair_profile"
             => /\ calls' = <<>>
                /\ profile_names' = profile_names
                /\ settings' = settings
                /\ peer' = peer]_vars

\* An unpair with index ZMK_BLE_PROFILE_COUNT has been refused while both
\* profiles are bonded and named.
C29_Witness ==
    /\ Handled("unpair_profile")
    /\ last.index = ZMK_BLE_PROFILE_COUNT
    /\ resp.which = "unpair_profile"
    /\ ~resp.success
    /\ calls = <<>>
    /\ \A i \in Indexes :
          Bound(peer[i]) /\ get_profile_name(profile_names, peer[i]) = "Laptop"

\* The handler the switch of the dispatcher calls for a request tag.
HandlerOf(tag) == "handle_" \o tag \o "_request"

\* C30: for each of the six request tags the dispatcher runs the handler of
\* that tag and no other, and the response carries the variant of that tag;
\* the handlers all return 0, so the error response is sent only for a
\* request no handler ran for: -ENOTSUP from the default arm, named in the
\* message, or a payload that does not decode.
C30_Dispatch ==
    /\ (phase = "responded" /\ last.tag \in RequestTags)
       => /\ handlers = <<HandlerOf(last.tag)>>
          /\ resp.which = last.tag
    /\ (phase = "responded" /\ resp.which = "error")
       => /\ handlers = <<>>
          /\ \/ last.tag = "none" /\
                resp.message = "Failed to process request: " \o DecStr(0 - ENOTSUP)
             \/ last.tag = "undecodable" /\ resp.message = "Failed to decode request"

\* A ForgetSplitBond request has been handled by its handler alone and
\* answered with its own response.
C30_Witness ==
    /\ Handled("forget_split_bond")
    /\ handlers = <<"handle_forget_split_bond_request">>
    /\ resp.which = "forget_split_bond"
    /\ resp.success
    /\ calls = <<  <<"zmk_ble_clear_all_bonds", 0, 0>>  >>

\* The responses the dispatcher produces for req in the current state when
\* the buffer it writes into is zeroed, each with the calls made and what
\* they answered.
FreshAnswers(req) ==
    CASE req.tag = "get_profiles" ->
           {[resp |-> LET h == handle_get_profiles_request(profile_names, act, conn)
                      IN  FinishRequest(h.rc, h.resp),
             calls |-> <<  <<"zmk_ble_active_profile_index", 0, act>>  >> \o
                       GetProfilesCalls(0, conn)] :
              act \in Indexes, conn \in SUBSET Indexes}
      [] req.tag = "set_profile_name" ->
           {LET h == handle_set_profile_name_request(req, profile_names, settings, wr_rc)
            IN  [resp |-> FinishRequest(h.rc, h.resp), calls |-> h.calls] :
              wr_rc \in WriteRcs}
      [] req.tag = "switch_profile" ->
           {LET h == handle_switch_profile_request(req, sel_rc)
            IN  [resp |-> FinishRequest(h.rc, h.resp), calls |-> h.calls] :
              sel_rc \in StackRcs}
      [] req.tag = "unpair_profile" ->
           {LET h == handle_unpair_profile_request(req, profile_names, settings, dis_rc)
            IN  [resp |-> FinishRequest(h.rc, h.resp), calls |-> h.calls] :
              dis_rc \in StackRcs}
      [] req.tag = "get_split_info" ->
           {LET h == handle_get_split_info_request(bonded)
            IN  [resp |-> FinishRequest(h.rc, h.resp), calls |-> h.calls] :
              bonded \in BOOLEAN}
      [] req.tag = "forget_split_bond" ->
           {[resp |-> FinishRequest(handle_forget_split_bond_request.rc,
                                    handle_forget_split_bond_request.resp),
             calls |-> handle_forget_split_bond_request.calls]}
      [] req.tag = "none" ->
           {[resp |-> FinishRequest(0 - ENOTSUP, ZeroResp), calls |-> <<>>]}
      [] req.tag = "undecodable" ->
           {[resp |-> DecodeFailureResp, calls |-> <<>>]}
      [] OTHER -> {}

\* C31: the response to a request is the one the dispatcher produces on a
\* zeroed buffer from the same request, cache, store and stack state and the
\* same answers of the calls it makes, whatever earlier responses left in
\* the buffer; request, state and answers determine it (no two of those
\* responses come with the same calls and answers).
C31_NoLeak ==
    [][(phase' = "responded")
       => \E fresh \in {FreshAnswers(last')} :
            /\ [resp |-> resp', calls |-> calls'] \in fresh
            /\ Cardinality({a.calls : a \in fresh}) = Cardinality(fresh)]_vars

\* A SwitchProfile the stack refused is answered with success = false and
\* nothing else on a device whose buffer earlier carried the success = true
\* of the rename that wrote the record in the store.
C31_Witness ==
    /\ Handled("switch_profile")
    /\ last.index < ZMK_BLE_PROFILE_COUNT
    /\ resp = [ZeroResp EXCEPT !.which = "switch_profile"]
    /\ \E i \in Indexes :
          /\ SettingName(peer[i]) \in StoreKeys(settings)
          /\ get_profile_name(profile_names, peer[i]) = "Laptop"

\* C32: GetProfiles, GetSplitInfo, SwitchProfile and ForgetSplitBond leave
\* the cache and the settings store as they were and make no settings call;
\* GetProfiles and GetSplitInfo also call none of zmk_ble_prof_select,
\* zmk_ble_prof_disconnect and zmk_ble_clear_all_bonds and leave the bonds
\* as they were.
C32_ReadOnlyRequests ==
    [][(/\ phase' = "responded"
        /\ last'.tag \in {"get_profiles", "get_split_info", "switch_profile",
                          "forget_split_bond"})
       => /\ profile_names' = profile_names
          /\ settings' = settings
          /\ CallsOf("settings_save_one")' = {}
          /\ last'.tag \in {"get_profiles", "get_split_info"}
             => /\ \A c \in 1..Len(calls') : calls'[c][1] \notin {"zmk_ble_prof_select", "zmk_ble_prof_disconnect",
                                        "zmk_ble_clear_all_bonds"}
                /\ peer' = peer]_vars

\* ForgetSplitBond has cleared every bond while the cache still holds a
\* name and the store its record.
C32_Witness ==
    /\ Handled("forget_split_bond")
    /\ resp.success
    /\ \A i \in Indexes : ~Bound(peer[i])
    /\ \E k \in Indexes :
          /\ Bound(profile_names[k].addr)
          /\ profile_names[k].name = "Laptop"
          /\ SettingName(profile_names[k].addr) \in StoreKeys(settings)

(***************************************************************************)
(* Settings loads from any cache                                           *)
(***************************************************************************)
\* Addresses a cache entry may hold: those of the peers and those of the
\* records stored at first boot.
CacheAddrs == PeerAddrs \cup {[type |-> 1, val |-> Val(k)] : k \in 1..NumStoredVals}

CacheEntries ==
    {EmptyEntry} \cup
    {[addr |-> a, name |-> n] : a \in CacheAddrs, n \in {"Laptop", "Desk"}}

\* The caches with no address held twice.
Caches ==
    {t \in [Indexes -> CacheEntries] :
        \A i, j \in Indexes :
            (i # j /\ Bound(t[i].addr)) => ~bt_addr_le_eq(t[i].addr, t[j].addr)}

\* The stores a load may run over: the records stored at first boot in any
\* storage order, cut after any number of records.
RECURSIVE Orders(_)
Orders(recs) ==
    IF recs = {} THEN {<<>>}
    ELSE UNION {{<<r>> \o o : o \in Orders(recs \ {r})} : r \in recs}

Stores ==
    UNION {{SubSeq(o, 1, n) : n \in 0..Len(o)} :
            o \in Orders({StoredAtBoot[j] : j \in DOMAIN StoredAtBoot})}

InitReload ==
    /\ profile_names \in Caches
    /\ settings \in Stores
    /\ phase = "reload"
    /\ cursor = 0
    /\ replays = 0
    /\ snap = NoSnap
    /\ peer = [i \in Indexes |-> BT_ADDR_LE_NONE]
    /\ split = "peripheral"
    /\ last = IdleReq
    /\ resp = ZeroResp
    /\ ret = FALSE
    /\ handlers = <<>>
    /\ calls = <<>>
    /\ web = WebClosed

NextReload ==
    \/ Replay
    \/ EndReplay
    \/ SettingsLoad

SpecReload == InitReload /\ [][NextReload]_vars

\* C7: a settings load that follows a completed load of the same records
\* leaves the cache as the first load left it.
C7_HydrateIdempotent == (replays = 2) => profile_names = snap

\* Two loads in a row of a store holding more addresses than the cache has
\* entries: the cache is full and an address of the store is not in it.
C7_Witness ==
    /\ replays = 2
    /\ phase = "serve"
    /\ \A i \in Indexes : Bound(profile_names[i].addr)
    /\ \E j \in DOMAIN settings :
          /\ ParseSettingAddr(settings[j].key).ok
          /\ \A i \in Indexes :
                ~bt_addr_le_eq(profile_names[i].addr,
                               ParseSettingAddr(settings[j].key).addr)

(***************************************************************************)
(* Split requests in every build configuration                             *)
(***************************************************************************)
\* CONFIG_ZMK_SPLIT_BLE off, or on with the central or the peripheral role.
SplitConfigs == {"none", "central", "peripheral"}

InitSplit ==
    /\ profile_names = profile_names_init
    /\ settings \in {EmptyStore, StoredAtBoot}
    /\ phase = "boot"
    /\ cursor = 0
    /\ replays = 0
    /\ snap = NoSnap
    /\ peer = [i \in Indexes |-> BT_ADDR_LE_NONE]
    /\ split \in SplitConfigs
    /\ last = IdleReq
    /\ resp = ZeroResp
    /\ ret = FALSE
    /\ handlers = <<>>
    /\ calls = <<>>
    /\ web = WebClosed

NextSplit ==
    \/ Replay
    \/ EndReplay
    \/ Pair
    \/ BondCleared
    \/ GetSplitInfo
    \/ ForgetSplitBond
    \/ SendResponse

SpecSplit == InitSplit /\ [][NextSplit]_vars

\* C16: with split support built in, ForgetSplitBond calls
\* zmk_ble_clear_all_bonds exactly once and answers success=true; without
\* it, it calls nothing and answers success=false.
C16_ForgetSplitBond ==
    Handled("forget_split_bond")
    => /\ resp.which = "forget_split_bond"
       /\ IF split # "none"
          THEN /\ calls = <<  <<"zmk_ble_clear_all_bonds", 0, 0>>  >>
               /\ resp.success
          ELSE /\ calls = <<>>
               /\ ~resp.success

\* A build without split support refused the request and the bond of a
\* profile is still there.
C16_Witness ==
    /\ Handled("forget_split_bond")
    /\ split = "none"
    /\ ~resp.success
    /\ \E i \in Indexes : Bound(peer[i])

\* C17: GetSplitInfo reports is_split, is_central and is_peripheral as the
\* build configuration sets them (never both roles, none of the three
\* without split support), central_bonded as the answer of
\* zmk_split_bt_peripheral_is_bonded in the peripheral role and false
\* otherwise, and peripheral_connected false in every configuration.
C17_SplitInfo ==
    Handled("get_split_info")
    => /\ resp.which = "get_split_info"
       /\ resp.info.is_split = (split # "none")
       /\ resp.info.is_central = (split = "central")
       /\ resp.info.is_peripheral = (split = "peripheral")
       /\ ~(resp.info.is_central /\ resp.info.is_peripheral)
       /\ ~resp.info.peripheral_connected
       /\ IF split = "peripheral"
          THEN /\ Len(calls) = 1
               /\ calls[1][1] = "zmk_split_bt_peripheral_is_bonded"
               /\ resp.info.central_bonded = (calls[1][3] = 1)
          ELSE /\ calls = <<>>
               /\ ~resp.info.central_bonded

\* The central role: no live query is made and both placeholders are false.
C17_Witness ==
    /\ Handled("get_split_info")
    /\ split = "central"
    /\ resp.info.is_split
    /\ resp.info.is_central
    /\ ~resp.info.is_peripheral
    /\ ~resp.info.peripheral_connected
    /\ ~resp.info.central_bonded

(***************************************************************************)
(* The web application: components, requests in flight, rendering          *)
(***************************************************************************)
\* Requests the page may have in flight at once.
MaxInFlight == 3

\* zmkApp?.state.connection
Connection(w) == w.app = "connected"

\* zmkApp?.findSubsystem(SUBSYSTEM_IDENTIFIER): whether a subsystem came back.
findSubsystem(w) == w.app = "connected" /\ w.listed

\* Variant: without a ZMKAppContext the component returns null, as
\* SplitManager does.
ProfileManagerRender_NullWithoutContext(w) ==
    IF w.app = "absent" THEN NoView
    ELSE IF ~findSubsystem(w)
    THEN [warning |-> TRUE, section |-> FALSE, refresh |-> FALSE]
    ELSE [warning |-> FALSE, section |-> TRUE, refresh |-> TRUE]

\* What ProfileManager returns: the warning card without a subsystem, the
\* Bluetooth Profiles section with its Refresh button otherwise.
ProfileManagerRender(w) ==
    IF ~findSubsystem(w)
    THEN [warning |-> TRUE, section |-> FALSE, refresh |-> FALSE]
    ELSE [warning |-> FALSE, section |-> TRUE, refresh |-> TRUE]

\* Variant: the section is shown as soon as any split info has arrived.
SplitManagerRender_AnyInfo(w) ==
    IF ~findSubsystem(w) THEN NoView
    ELSE IF w.sm.splitInfo = NoInfo THEN NoView
    ELSE [warning |-> FALSE, section |-> TRUE, refresh |-> TRUE]

\* What SplitManager returns: null without a subsystem and null unless the
\* split info it holds says isSplit; the Split Keyboard section otherwise.
SplitManagerRender(w) ==
    IF ~findSubsystem(w) THEN NoView
    ELSE IF w.sm.splitInfo = NoInfo THEN NoView
    ELSE IF ~w.sm.splitInfo.is_split THEN NoView
    ELSE [warning |-> FALSE, section |-> TRUE, refresh |-> TRUE]

\* React renders both components again after every state change.
Render(w) ==
    [w EXCEPT !.pm_view = ProfileManagerRender(w),
              !.sm_view = SplitManagerRender(w)]

\* A request waiting for its reply and the component that sent it.
Rpc(from, req) == [from |-> from, req |-> req]

\* loadProfiles up to its await: nothing without a connection or a
\* subsystem; otherwise isLoading is set, the error cleared and a
\* getProfiles request sent.
loadProfiles(w) ==
    IF ~Connection(w) \/ ~findSubsystem(w) THEN w
    ELSE [w EXCEPT !.pm.isLoading = TRUE,
                   !.pm.error = NoError,
                   !.rpc = Append(@, Rpc("pm", Req("get_profiles", 0, "")))]

\* loadSplitInfo up to its await.
loadSplitInfo(w) ==
    IF ~Connection(w) \/ ~findSubsystem(w) THEN w
    ELSE [w EXCEPT !.sm.isLoading = TRUE,
                   !.sm.error = NoError,
                   !.rpc = Append(@, Rpc("sm", Req("get_split_info", 0, "")))]

\* The useEffect of each component, in mount order: with a subsystem and a
\* connection it loads.
Effects(w) ==
    IF findSubsystem(w) /\ Connection(w)
    THEN loadSplitInfo(loadProfiles(w))
    ELSE w

\* What callRPC may come back with: a response payload, a falsy payload or
\* an exception.
Payload(r) == [kind |-> "payload", resp |-> r]

EmptyPayload == [kind |-> "empty", resp |-> ZeroResp]

Thrown == [kind |-> "throw", resp |-> ZeroResp]

\* The replies to a request: what the firmware answers to it in its current
\* state, the error response of the firmware, or a failure of the transport.
Replies(req) ==
    (IF req.tag = "get_profiles"
     THEN {Payload(FinishRequest(h.rc, h.resp)) :
             h \in {handle_get_profiles_request(profile_names, act, conn) :
                      act \in Indexes,
                      conn \in SUBSET {i \in Indexes : Bound(peer[i])}}}
     ELSE {Payload(FinishRequest(h.rc, h.resp)) :
             h \in {handle_get_split_info_request(bonded) : bonded \in BOOLEAN}})
    \cup {Payload(DecodeFailureResp), EmptyPayload, Thrown}

\* loadProfiles from its await on.
loadProfilesDone(pm, reply) ==
    LET got == IF reply.kind = "throw"
               THEN [pm EXCEPT !.error = "Failed to load profiles: Unknown error"]
               ELSE IF reply.kind = "empty" THEN pm
               ELSE IF reply.resp.which = "get_profiles"
                    THEN [pm EXCEPT !.profiles = reply.resp.profiles,
                                    !.maxProfiles = reply.resp.max_profiles]
               ELSE IF reply.resp.which = "error"
                    THEN [pm EXCEPT !.error = reply.resp.message]
               ELSE pm
    IN  [got EXCEPT !.isLoading = FALSE]

\* loadSplitInfo from its await on.
loadSplitInfoDone(sm, reply) ==
    LET got == IF reply.kind = "throw"
               THEN [sm EXCEPT !.error = "Failed to load split info: Unknown error"]
               ELSE IF reply.kind = "empty" THEN sm
               ELSE IF reply.resp.which = "get_split_info"
                    THEN [sm EXCEPT !.splitInfo = reply.resp.info]
               ELSE IF reply.resp.which = "error"
                    THEN [sm EXCEPT !.error = reply.resp.message]
               ELSE sm
    IN  [got EXCEPT !.isLoading = FALSE]

\* The firmware side, which no step of the page changes by itself.
fw_vars == <<profile_names, settings, phase, cursor, replays, snap, peer,
             split, last, resp, ret, handlers, calls>>

\* The page is opened: the components mount with the context they find,
\* render, and run their effects.  Only a connected device lists
\* subsystems.
WebMount ==
    /\ ~web.mounted
    /\ \E app \in {"absent", "disconnected", "connected"}, listed \in BOOLEAN :
         /\ (app # "connected") => ~listed
         /\ web' = Render(Effects([WebClosed EXCEPT !.mounted = TRUE,
                                                    !.app = app,
                                                    !.listed = listed]))
    /\ UNCHANGED fw_vars

\* The connection comes up; the effects run because their dependencies
\* changed.
WebConnect ==
    /\ web.mounted
    /\ web.app = "disconnected"
    /\ Len(web.rpc) + 2 <= MaxInFlight
    /\ \E listed \in BOOLEAN :
         web' = Render(Effects([web EXCEPT !.app = "connected",
                                          !.listed = listed]))
    /\ UNCHANGED fw_vars

\* The connection is lost; requests in flight are still answered or fail.
WebDisconnect ==
    /\ web.mounted
    /\ web.app = "connected"
    /\ web' = Render(Effects([web EXCEPT !.app = "disconnected",
                                         !.listed = FALSE]))
    /\ UNCHANGED fw_vars

\* Refresh of ProfileManager is clicked; the button is disabled while
\* isLoading.
PmRefresh ==
    /\ web.mounted
    /\ web.pm_view.refresh
    /\ ~web.pm.isLoading
    /\ Len(web.rpc) < MaxInFlight
    /\ web' = Render(loadProfiles(web))
    /\ UNCHANGED fw_vars

\* Refresh of SplitManager is clicked.
SmRefresh ==
    /\ web.mounted
    /\ web.sm_view.refresh
    /\ ~web.sm.isLoading
    /\ Len(web.rpc) < MaxInFlight
    /\ web' = Render(loadSplitInfo(web))
    /\ UNCHANGED fw_vars

\* callRPC of the oldest request in flight settles and the function that
\* awaited it runs to its end.
RpcReply ==
    /\ web.mounted
    /\ web.rpc # <<>>
    /\ LET call == Head(web.rpc) IN
       \E reply \in Replies(call.req) :
         web' = Render(
                  IF call.from = "pm"
                  THEN [web EXCEPT !.rpc = Tail(@),
                                   !.pm = loadProfilesDone(@, reply)]
                  ELSE [web EXCEPT !.rpc = Tail(@),
                                   !.sm = loadSplitInfoDone(@, reply)])
    /\ UNCHANGED fw_vars

\* The states of the stack the page may meet: no peer holds two profiles.
PeerStates ==
    {p \in [Indexes -> PeerAddrs \cup {BT_ADDR_LE_NONE}] :
        \A i, j \in Indexes : (i # j /\ Bound(p[i])) => ~bt_addr_le_eq(p[i], p[j])}

InitWeb ==
    /\ profile_names = profile_names_init
    /\ settings = EmptyStore
    /\ phase = "serve"
    /\ cursor = 0
    /\ replays = 0
    /\ snap = NoSnap
    /\ peer \in PeerStates
    /\ split \in SplitConfigs
    /\ last = IdleReq
    /\ resp = ZeroResp
    /\ ret = FALSE
    /\ handlers = <<>>
    /\ calls = <<>>
    /\ web = WebClosed

NextWeb ==
    \/ WebMount
    \/ WebConnect
    \/ WebDisconnect
    \/ PmRefresh
    \/ SmRefresh
    \/ RpcReply

SpecWeb == InitWeb /\ [][NextWeb]_vars

\* C18: ProfileManager shows the "subsystem not found" warning exactly when
\* the subsystem lookup fails (the device does not list the identifier, or
\* there is no application context), and the Bluetooth Profiles section
\* with the Refresh button exactly when the lookup succeeds.
C18_ProfileManagerView ==
    web.mounted
    => /\ web.pm_view.warning <=> ~(web.app = "connected" /\ web.listed)
       /\ web.app = "absent" => web.pm_view.warning
       /\ (web.pm_view.section /\ web.pm_view.refresh)
             <=> (web.app = "connected" /\ web.listed)
       /\ ~(web.pm_view.warning /\ web.pm_view.section)

\* Mounted without any application context: the warning is shown.
C18_Witness ==
    /\ web.mounted
    /\ web.app = "absent"
    /\ web.pm_view.warning
    /\ ~web.pm_view.section

\* C19: SplitManager renders nothing without a subsystem and nothing until
\* a GetSplitInfo response with is_split=true has arrived: whenever its
\* section is shown the subsystem is found and the split info last received
\* says is_split, which only a firmware built with split support answers.
C19_SplitManagerView ==
    web.mounted
    => /\ ~(web.app = "connected" /\ web.listed) => ~web.sm_view.section
       /\ web.sm.splitInfo = NoInfo => ~web.sm_view.section
       /\ web.sm_view.section
             => /\ web.sm.splitInfo # NoInfo
                /\ web.sm.splitInfo.is_split
                /\ split # "none"

\* A firmware without split support has answered GetSplitInfo and the
\* component, which holds that answer, still renders nothing.
C19_Witness ==
    /\ web.mounted
    /\ web.app = "connected"
    /\ web.listed
    /\ web.sm.splitInfo # NoInfo
    /\ ~web.sm.splitInfo.is_split
    /\ ~web.sm_view.section

(***************************************************************************)
(* Boot                                                                    *)
(***************************************************************************)
\* Power-on: the static array is zeroed and nothing has run; the settings
\* store holds records in some storage order.
InitBoot ==
    /\ profile_names = [i \in Indexes |-> ZeroedEntry]
    /\ settings \in Stores
    /\ phase = "reset"
    /\ cursor = 0
    /\ replays = 0
    /\ snap = NoSnap
    /\ peer = [i \in Indexes |-> BT_ADDR_LE_NONE]
    /\ split = "peripheral"
    /\ last = IdleReq
    /\ resp = ZeroResp
    /\ ret = FALSE
    /\ handlers = <<>>
    /\ calls = <<>>
    /\ web = WebClosed

\* SYS_INIT(profile_names_init, APPLICATION, ...): the kernel runs the
\* function once, before main() loads the settings.
SysInit ==
    /\ phase = "reset"
    /\ profile_names' = profile_names_init
    /\ phase' = "boot"
    /\ NoRequest
    /\ UNCHANGED <<settings, cursor, replays, snap, stack_vars, split>>

NextBoot ==
    \/ SysInit
    \/ Replay
    \/ EndReplay

SpecBoot == InitBoot /\ [][NextBoot]_vars

\* The cache after profile_names_settings_set has taken the first n records
\* of store, every read succeeding, starting from table.
RECURSIVE HydrateAll(_, _, _)
HydrateAll(table, store, n) ==
    IF n = 0 THEN table
    ELSE profile_names_settings_set(HydrateAll(table, store, n - 1),
                                    store[n].key, store[n].value, TRUE)

C34_NoOrphanNames ==
    (phase \in {"serve", "responded"})
    => /\ \A k \in Indexes :
             Bound(profile_names[k].addr)
             => \E i \in Indexes : bt_addr_le_eq(peer[i], profile_names[k].addr)
       /\ (/\ Handled("set_profile_name")
           /\ last.index < ZMK_BLE_PROFILE_COUNT
           /\ Bound(peer[last.index])
           /\ \A c \in CallsOf("settings_save_one") : calls[c][3] = 0)
          => resp.success

\* C33: a restart changes no lookup: the cache it produces from the current
\* store (profile_names_init, then every record replayed with its read
\* succeeding) answers every lookup as the cache does now.  In particular
\* a name the cache holds for an address whose record was written is found
\* after the restart, and the name UnpairProfile has just removed for the
\* address of a profile is not found after it.
C33_RestartTransparent ==
    LET restarted == HydrateAll(profile_names_init, settings, Len(settings)) IN
    /\ (phase = "serve")
       => \A a \in PeerAddrs :
             (/\ SettingName(a) \in StoreKeys(settings)
              /\ get_profile_name(profile_names, a) =
                    Strncpy(StoreValue(settings, SettingName(a)), NAME_SIZE - 1))
             => get_profile_name(restarted, a) = get_profile_name(profile_names, a)
    /\ (/\ Handled("unpair_profile")
        /\ last.index < ZMK_BLE_PROFILE_COUNT
        /\ Bound(peer[last.index]))
       => get_profile_name(restarted, peer[last.index]) =
             get_profile_name(profile_names, peer[last.index])

(***************************************************************************)
(* The store over the life of a device                                     *)
(***************************************************************************)
\* Hosts a device may meet over its life: more than it has profiles.
HostAddrs == {[type |-> 1, val |-> Val(k)] : k \in 1..NumStoredVals}

\* A device fresh from the factory: nothing stored, nothing bonded.
InitHistory ==
    /\ profile_names = profile_names_init
    /\ settings = EmptyStore
    /\ phase = "boot"
    /\ cursor = 0
    /\ replays = 0
    /\ snap = NoSnap
    /\ peer = [i \in Indexes |-> BT_ADDR_LE_NONE]
    /\ split = "peripheral"
    /\ last = IdleReq
    /\ resp = ZeroResp
    /\ ret = FALSE
    /\ handlers = <<>>
    /\ calls = <<>>
    /\ web = WebClosed

\* One of those hosts pairs with an open profile.
PairHost ==
    /\ EnvStep
    /\ \E i \in Indexes, a \in HostAddrs :
         /\ ~Bound(peer[i])
         /\ \A j \in Indexes : ~bt_addr_le_eq(peer[j], a)
         /\ peer' = [peer EXCEPT ![i] = a]

NextHistory ==
    \/ PairHost
    \/ BondCleared
    \/ SetProfileName
    \/ SendResponse
    \/ Restart
    \/ Replay
    \/ EndReplay

SpecHistory == InitHistory /\ [][NextHistory]_vars

\* The addresses the store has a record for.  No code deletes a record, so
\* these are the addresses saved since the store was empty.
SavedAddrs(store) ==
    {a \in CacheAddrs :
        \/ SettingName(a) \in StoreKeys(store)
        \/ \E k \in 1..NumStoredVals :
              a = [type |-> 1, val |-> Val(k)] /\ AcceptedKey(k) \in StoreKeys(store)}

\* The request just handled was a rename save_profile_name refused with
\* -ENOMEM: the profile is bonded, the answer is a failure and no write was
\* attempted.
Exhausted ==
    /\ Handled("set_profile_name")
    /\ last.index < ZMK_BLE_PROFILE_COUNT
    /\ Bound(peer[last.index])
    /\ ~resp.success
    /\ CallsOf("settings_save_one") = {}

\* Every address in the cache has a record in the store.
EntriesSaved ==
    \A k \in Indexes :
        Bound(profile_names[k].addr) => profile_names[k].addr \in SavedAddrs(settings)

MaxClicks == 2

\* editingIndex of ProfileManager when no name is being edited.
NotEditing == 0 - 1

\* The page as renderConnected mounts it: the three components, each with
\* its useState initial values ("null" is the null currentPriority), over
\* a connection whose device lists the subsystem, before their effects
\* run.  op is the ProfileManager function the user invoked last and
\* clicks the number of user actions so far.
PageConnected ==
    [mounted |-> TRUE, app |-> "connected", listed |-> TRUE, rpc |-> <<>>,
     opm |-> [currentPriority |-> "null", isLoading |-> FALSE, error |-> NoError],
     pm |-> ProfileManagerState, pm_view |-> NoView,
     editingIndex |-> NotEditing, editName |-> "", op |-> "mount", clicks |-> 0,
     sm |-> SplitManagerState, sm_view |-> NoView]

\* A function of component c ("opm", "pm" or "sm") up to its await:
\* nothing without a connection or a subsystem; otherwise isLoading is
\* set, the error cleared and the request sent.
CallRPC(w, c, req) ==
    IF ~Connection(w) \/ ~findSubsystem(w) THEN w
    ELSE [w EXCEPT ![c].isLoading = TRUE,
                   ![c].error = NoError,
                   !.rpc = Append(@, Rpc(c, req))]

\* loadOutputPriority from its await on.  The Response of the firmware has
\* no getOutputPriority variant, so the priority is never read from it.
loadOutputPriorityDone(opm, reply) ==
    LET got == IF reply.kind = "throw"
               THEN [opm EXCEPT !.error = "Failed to load output priority: Unknown error"]
               ELSE IF reply.kind = "empty" THEN opm
               ELSE IF reply.resp.which = "get_output_priority"
                    THEN [opm EXCEPT !.currentPriority = reply.resp.priority]
               ELSE IF reply.resp.which = "error"
                    THEN [opm EXCEPT !.error = reply.resp.message]
               ELSE opm
    IN  [got EXCEPT !.isLoading = FALSE]

\* The buttons OutputPriorityManager offers: the two priorities once a
\* priority is known, and Refresh.
OutputPriorityManagerButtons(opm) ==
    [usb |-> opm.currentPriority # "null" /\ ~(opm.isLoading \/ opm.currentPriority = "USB"),
     ble |-> opm.currentPriority # "null" /\ ~(opm.isLoading \/ opm.currentPriority = "BLE"),
     refresh |-> ~opm.isLoading]

\* Variant: a response without success leaves isLoading set.
OperationDone_NoFinally(w, c, reply, tag, failure) ==
    IF reply.kind = "throw"
    THEN [w EXCEPT ![c].error = failure \o ": Unknown error", ![c].isLoading = FALSE]
    ELSE IF reply.kind = "empty" THEN [w EXCEPT ![c].isLoading = FALSE]
    ELSE IF reply.resp.which = tag /\ reply.resp.success
    THEN LET w2 == IF c = "pm" THEN loadProfiles(w) ELSE loadSplitInfo(w) IN
         IF w2 = w THEN [w EXCEPT ![c].isLoading = FALSE] ELSE w2
    ELSE IF reply.resp.which = "error"
    THEN [w EXCEPT ![c].error = reply.resp.message]
    ELSE [w EXCEPT ![c].error = failure]

\* switchProfile, unpairProfile, saveProfileName (c = "pm") and
\* forgetSplitBond (c = "sm") from their await on: the response of their
\* own variant with success set makes them await loadProfiles or
\* loadSplitInfo, whose finally block and then their own clear isLoading;
\* every other outcome ends in their finally block.
OperationDone(w, c, reply, tag, failure) ==
    IF reply.kind = "throw"
    THEN [w EXCEPT ![c].error = failure \o ": Unknown error", ![c].isLoading = FALSE]
    ELSE IF reply.kind = "empty" THEN [w EXCEPT ![c].isLoading = FALSE]
    ELSE IF reply.resp.which = tag /\ reply.resp.success
    THEN LET w2 == IF c = "pm" THEN loadProfiles(w) ELSE loadSplitInfo(w) IN
         IF w2 = w THEN [w EXCEPT ![c].isLoading = FALSE] ELSE w2
    ELSE IF reply.resp.which = "error"
    THEN [w EXCEPT ![c].error = reply.resp.message, ![c].isLoading = FALSE]
    ELSE [w EXCEPT ![c].error = failure, ![c].isLoading = FALSE]

\* callRPC of the oldest request settles with reply and the function that
\* awaited it runs on; saveProfileName leaves the edit mode before it
\* reloads.
Settle(w, reply) ==
    LET call == Head(w.rpc)
        rest == [w EXCEPT !.rpc = Tail(@)]
    IN  CASE call.req.tag = "get_profiles" ->
               [rest EXCEPT !.pm = loadProfilesDone(@, reply)]
          [] call.req.tag = "get_split_info" ->
               [rest EXCEPT !.sm = loadSplitInfoDone(@, reply)]
          [] call.req.tag = "get_output_priority" ->
               [rest EXCEPT !.opm = loadOutputPriorityDone(@, reply)]
          [] call.req.tag = "switch_profile" ->
               OperationDone(rest, "pm", reply, "switch_profile",
                             "Failed to switch profile")
          [] call.req.tag = "unpair_profile" ->
               OperationDone(rest, "pm", reply, "unpair_profile",
                             "Failed to unpair profile")
          [] call.req.tag = "set_profile_name" ->
               OperationDone(IF reply.kind = "payload"
                                /\ reply.resp.which = "set_profile_name"
                                /\ reply.resp.success
                             THEN [rest EXCEPT !.editingIndex = NotEditing,
                                               !.editName = ""]
                             ELSE rest,
                             "pm", reply, "set_profile_name",
                             "Failed to save profile name")
          [] call.req.tag = "forget_split_bond" ->
               OperationDone(rest, "sm", reply, "forget_split_bond",
                             "Failed to forget split bonds")

\* The firmware has the oldest request of the page to handle; a variant
\* the switch of the dispatcher has no case for selects the default arm.
Arrived(tag) ==
    /\ web.rpc # <<>>
    /\ Head(web.rpc).req.tag = tag
    /\ last' = IF tag \in RequestTags THEN Head(web.rpc).req ELSE Req("none", 0, "")

\* The dispatcher handles the request that has arrived.
PageServe ==
    \/ GetProfiles /\ Arrived("get_profiles")
    \/ SetProfileName /\ Arrived("set_profile_name")
    \/ SwitchProfile /\ Arrived("switch_profile")
    \/ UnpairProfile /\ Arrived("unpair_profile")
    \/ GetSplitInfo /\ Arrived("get_split_info")
    \/ ForgetSplitBond /\ Arrived("forget_split_bond")
    \/ UnsupportedRequest /\ Arrived("get_output_priority")

\* The response reaches the page, or the transport loses it and callRPC
\* resolves empty or throws; the dispatcher waits for the next request.
PageReply ==
    /\ phase = "responded"
    /\ web.rpc # <<>>
    /\ \E reply \in {Payload(resp), EmptyPayload, Thrown} :
         web' = Render(Settle(web, reply))
    /\ phase' = "serve"
    /\ last' = IdleReq
    /\ resp' = ZeroResp
    /\ ret' = FALSE
    /\ handlers' = <<>>
    /\ calls' = <<>>
    /\ UNCHANGED <<store_vars, stack_vars, cursor, replays, snap, split>>

\* One more user action.
Clicked(w) == Render([w EXCEPT !.clicks = @ + 1])

\* The profiles ProfileManager lists.
Listed(i) == web.pm.maxProfiles > 0 /\ i \in DOMAIN web.pm.profiles

\* "Switch to this profile" of a listed, inactive profile is clicked:
\* switchProfile up to its await.
ClickSwitch ==
    /\ web.clicks < MaxClicks
    /\ ~web.pm.isLoading
    /\ \E i \in Indexes :
         /\ Listed(i)
         /\ ~web.pm.profiles[i].is_active
         /\ web' = Clicked(CallRPC([web EXCEPT !.op = "switchProfile"], "pm",
                                   Req("switch_profile", i, "")))
    /\ UNCHANGED fw_vars

\* "Unpair" of a listed profile that is not open is clicked and confirmed:
\* unpairProfile up to its await.
ClickUnpair ==
    /\ web.clicks < MaxClicks
    /\ ~web.pm.isLoading
    /\ \E i \in Indexes :
         /\ Listed(i)
         /\ ~web.pm.profiles[i].is_open
         /\ web' = Clicked(CallRPC([web EXCEPT !.op = "unpairProfile"], "pm",
                                   Req("unpair_profile", i, "")))
    /\ UNCHANGED fw_vars

\* startEditing: the pencil of a listed profile that is not open.
ClickEdit ==
    /\ web.clicks < MaxClicks
    /\ ~web.pm.isLoading
    /\ \E i \in Indexes :
         /\ Listed(i)
         /\ ~web.pm.profiles[i].is_open
         /\ web.editingIndex # i
         /\ web' = Clicked([web EXCEPT !.editingIndex = i,
                                       !.editName = web.pm.profiles[i].name])
    /\ UNCHANGED fw_vars

\* cancelEditing.
ClickCancel ==
    /\ web.clicks < MaxClicks
    /\ ~web.pm.isLoading
    /\ web.editingIndex # NotEditing
    /\ Listed(web.editingIndex)
    /\ ~web.pm.profiles[web.editingIndex].is_open
    /\ web' = Clicked([web EXCEPT !.editingIndex = NotEditing, !.editName = ""])
    /\ UNCHANGED fw_vars

\* A name the input lets through (maxLength) is typed for the profile
\* being edited and Save is clicked: saveProfileName up to its await.
ClickSave ==
    /\ web.clicks < MaxClicks
    /\ ~web.pm.isLoading
    /\ web.editingIndex # NotEditing
    /\ Listed(web.editingIndex)
    /\ ~web.pm.profiles[web.editingIndex].is_open
    /\ \E n \in {m \in ReqNames : Len(m) <= PROFILE_INFO_NAME_SIZE - 1} :
         web' = Clicked(CallRPC([web EXCEPT !.editName = n,
                                            !.op = "saveProfileName"], "pm",
                                Req("set_profile_name", web.editingIndex, n)))
    /\ UNCHANGED fw_vars

\* Refresh of ProfileManager.
ClickRefreshProfiles ==
    /\ web.clicks < MaxClicks
    /\ web.pm_view.refresh
    /\ ~web.pm.isLoading
    /\ web' = Clicked(loadProfiles([web EXCEPT !.op = "loadProfiles"]))
    /\ UNCHANGED fw_vars

\* Refresh of SplitManager.
ClickRefreshSplit ==
    /\ web.clicks < MaxClicks
    /\ web.sm_view.refresh
    /\ ~web.sm.isLoading
    /\ web' = Clicked(loadSplitInfo(web))
    /\ UNCHANGED fw_vars

\* "Reset Split Connection" is clicked and confirmed: forgetSplitBond up
\* to its await.
ClickForget ==
    /\ web.clicks < MaxClicks
    /\ web.sm_view.section
    /\ web.sm.splitInfo # NoInfo
    /\ ~web.sm.isLoading
    /\ web' = Clicked(CallRPC(web, "sm", Req("forget_split_bond", 0, "")))
    /\ UNCHANGED fw_vars

\* Refresh of OutputPriorityManager: loadOutputPriority up to its await.
ClickRefreshPriority ==
    /\ web.clicks < MaxClicks
    /\ OutputPriorityManagerButtons(web.opm).refresh
    /\ web' = Clicked(CallRPC(web, "opm", Req("get_output_priority", 0, "")))
    /\ UNCHANGED fw_vars

\* The device, one host bonded to its first profile, is connected and the
\* page has just mounted its components, whose effects have run in mount
\* order.
InitPage ==
    /\ profile_names = profile_names_init
    /\ settings = EmptyStore
    /\ phase = "serve"
    /\ cursor = 0
    /\ replays = 0
    /\ snap = NoSnap
    /\ peer \in {p \in PeerStates : Bound(p[0]) /\ ~Bound(p[1])}
    /\ split = "peripheral"
    /\ last = IdleReq
    /\ resp = ZeroResp
    /\ ret = FALSE
    /\ handlers = <<>>
    /\ calls = <<>>
    /\ web = Render(loadSplitInfo(loadProfiles(
                CallRPC(PageConnected, "opm", Req("get_output_priority", 0, "")))))

NextPage ==
    \/ PageServe
    \/ PageReply
    \/ ClickSwitch
    \/ ClickUnpair
    \/ ClickEdit
    \/ ClickCancel
    \/ ClickSave
    \/ ClickRefreshProfiles
    \/ ClickRefreshSplit
    \/ ClickForget
    \/ ClickRefreshPriority

SpecPage == InitPage /\ [][NextPage]_vars

\* C35: every request variant the page sends (getProfiles, setProfileName,
\* switchProfile, unpairProfile, getSplitInfo, forgetSplitBond,
\* getOutputPriority, setOutputPriority) is routed by the dispatcher to a
\* handler and answered with the response of that variant, never with the
\* error response of an unsupported request.
C35_ProtocolAgreement ==
    (phase = "responded" /\ web.rpc # <<>>)
    => /\ Head(web.rpc).req.tag \in
            RequestTags \cup {"get_output_priority", "set_output_priority"}
       /\ handlers # <<>>
       /\ resp.which = Head(web.rpc).req.tag

\* C36: once switchProfile, unpairProfile or saveProfileName has run to its
\* end and the page has no request in flight, the list ProfileManager shows
\* is a list GetProfiles would be answered with now, whatever the
\* operation was answered.
C36_ViewConsistent ==
    (/\ web.op \in {"switchProfile", "unpairProfile", "saveProfileName"}
     /\ ~web.pm.isLoading
     /\ web.rpc = <<>>
     /\ phase = "serve")
    => /\ web.pm.maxProfiles > 0
       /\ \E act \in Indexes, conn \in SUBSET {i \in Indexes : Bound(peer[i])} :
             LET h == handle_get_profiles_request(profile_names, act, conn)
             IN  web.pm.profiles = FinishRequest(h.rc, h.resp).profiles

\* callRPC settles, and the dispatcher handles every request it is handed:
\* PageServe is enabled exactly while a request has arrived and the
\* dispatcher waits, and only a PageServe step ends that, so its weak
\* fairness is that the dispatcher does not wait over a request forever.
SpecPageLive ==
    /\ SpecPage
    /\ WF_vars(PageReply)
    /\ []<>~(phase = "serve" /\ web.rpc # <<>>)

Components == {"opm", "pm", "sm"}

\* The requests of a component callRPC has not settled.
InFlight(c) == {k \in 1..Len(web.rpc) : web.rpc[k].from = c}

\* The step changes the React state of a component.
Touched(c) ==
    \/ web'[c] # web[c]
    \/ c = "pm" /\ \/ web'.editingIndex # web.editingIndex
                   \/ web'.editName # web.editName

\* C37: in ProfileManager, SplitManager and OutputPriorityManager isLoading
\* is set exactly while a request of the component is in flight, whatever
\* the earlier ones came back with; no user action changes the state of a
\* component while it is set, so a request is added only by a component
\* with none in flight and a component has at most one; and isLoading,
\* once set, is cleared again.
C37_RequestLock ==
    /\ [](\A c \in Components :
            /\ web[c].isLoading <=> (InFlight(c) # {})
            /\ Cardinality(InFlight(c)) <= 1
            /\ web.opm.isLoading
               => \A b \in DOMAIN OutputPriorityManagerButtons(web.opm) :
                     ~OutputPriorityManagerButtons(web.opm)[b])
    /\ [][\A c \in Components :
            /\ (web'.clicks > web.clicks /\ Touched(c)) => ~web[c].isLoading
            /\ (Cardinality(InFlight(c)') > Cardinality(InFlight(c)))
               => ~web[c].isLoading /\ web'[c].isLoading]_vars
    /\ \A c \in Components : web[c].isLoading ~> ~web[c].isLoading

\* unpairProfile was answered success = false and has cleared isLoading,
\* showing its error; no request of the page is left in flight, and
\* loadOutputPriority has shown the error response it was answered.
C37_Witness ==
    /\ web.op = "unpairProfile"
    /\ web.pm.error = "Failed to unpair profile"
    /\ ~web.pm.isLoading
    /\ web.rpc = <<>>
    /\ web.opm.error = "Failed to process request: " \o DecStr(0 - ENOTSUP)
    /\ ~web.opm.isLoading

====
